---- MODULE Spec2Model ----
(***************************************************************************)
(* Model of the audio-analyzer core of khaled4vokalz/voa:                  *)
(*   alignment.py   align_audio_features, compute_time_stretch,            *)
(*                  segment_alignment                                      *)
(*   comparison.py  compare_recitations, compare_mfcc_segment,             *)
(*                  compare_timing_segment, detect_issues,                 *)
(*                  compare_word_by_word, detect_word_issues,              *)
(*                  generate_summary                                       *)
(*   main.py        analyze_pronunciation                                  *)
(*   reference_audio.py  get_reference_audio, fetch_quranwbw_timestamps    *)
(*                                                                         *)
(* Python floats are modelled as exact rationals <<n, d>> in lowest terms  *)
(* with d > 0.  The two places where the code takes a square root (the     *)
(* Euclidean local distance of the warping search and scipy's cosine) are  *)
(* computed in fixed point: distances in units of 1/DistScale, cosines in  *)
(* units of 1/CosScale.                                                    *)
(***************************************************************************)
EXTENDS Integers, Sequences, FiniteSets, TLC

VARIABLES
  pc,            \* position of the caller: which call has been made last
  user,          \* user_features   : AudioFeatures (or None)
  ref,           \* ref_features    : AudioFeatures (or None)
  alignment,     \* AlignmentResult (or None)
  n_segments,    \* the n_segments argument of the last compare_recitations
  word_timings,  \* the word_timings of the request (None or a list)
  report,        \* PronunciationReport, an exception, or None
  words,         \* list of word feedback dicts, or None
  timing_in,     \* arguments of the compare_timing_segment calls under test
  timing_out,    \* their results
  mfcc_in,       \* arguments of the compare_mfcc_segment call under test
  mfcc_out,      \* its result
  detect_in,     \* arguments of the detect_issues / detect_word_issues call under test
  detect_out,    \* its result
  stretch_in,    \* segment_frames of the compute_time_stretch call under test
  stretch_out,   \* its result
  audio_file,        \* the cache file of one (surah, ayah, qari)
  audio_call,        \* the concurrent get_reference_audio calls for that key
  timestamps_file,   \* the cache file quranwbw_timestamps.json
  timestamps_cache,  \* the module global _timestamps_cache
  timestamps_call,   \* the concurrent fetch_quranwbw_timestamps calls
  fetches            \* GET requests issued for the timestamps file

analysis_vars == <<pc, user, ref, alignment, n_segments, word_timings, report, words,
                   timing_in, timing_out, mfcc_in, mfcc_out,
                   detect_in, detect_out, stretch_in, stretch_out>>

fetch_vars == <<audio_file, audio_call, timestamps_file, timestamps_cache,
                timestamps_call, fetches>>

vars == <<analysis_vars, fetch_vars>>

None == "None"

\* a cache file that does not exist
NoFile == [exists |-> FALSE, content |-> <<>>]

\* no call of reference_audio.py is in progress and nothing is cached
FetchIdle ==
  /\ audio_file = NoFile
  /\ audio_call = <<>>
  /\ timestamps_file = NoFile
  /\ timestamps_cache = None
  /\ timestamps_call = <<>>
  /\ fetches = 0

-----------------------------------------------------------------------------
(* Bounds of the model *)

MaxFrames == 3
MaxRefFrames == 2
MaxSegments == 5
MaxWords == 2
MaxPathLen == 4
MaxWordListLen == 2
MaxSpan == 6
MaxWindow == 2
MaxDetectFrames == 5
MaxDistanceSteps == 5
MaxSegmentFrames == 3
DistScale == 2
CosScale == 20

-----------------------------------------------------------------------------
(* Program constants *)

DefaultSampleRate == 22050
DefaultHopLength == 512
DefaultNFft == 2048
DefaultNSegments == 5

-----------------------------------------------------------------------------
(* Arithmetic helpers *)

Abs(x) == IF x < 0 THEN -x ELSE x

Min2(a, b) == IF b < a THEN b ELSE a

Max2(a, b) == IF b > a THEN b ELSE a

RECURSIVE GCD(_, _)
GCD(a, b) == IF b = 0 THEN a ELSE GCD(b, a % b)

\* Python's // on integers (floor division); TLA+'s \div already floors
FloorDiv(a, b) == a \div b

\* Python's int() of a quotient n/d with d > 0: truncation toward zero
TruncDiv(n, d) == IF n >= 0 THEN n \div d ELSE -((-n) \div d)

\* largest r with r*r <= n
Isqrt(n) == CHOOSE r \in 0..(n + 1) : r * r <= n /\ (r + 1) * (r + 1) > n

\* a float that is nan: the pair with denominator 0
NaN == <<0, 0>>

\* the rational n/d in lowest terms, d > 0; nan when d = 0, so that nan
\* propagates through the arithmetic below as it does through floats
Rat(n, d) ==
  IF d = 0 THEN NaN
  ELSE LET s == IF d < 0 THEN -1 ELSE 1
           g == GCD(Abs(n), Abs(d))
       IN  <<(s * n) \div g, (s * d) \div g>>

RInt(k) == <<k, 1>>

RAdd(a, b) == Rat(a[1] * b[2] + b[1] * a[2], a[2] * b[2])

RSub(a, b) == Rat(a[1] * b[2] - b[1] * a[2], a[2] * b[2])

RMul(a, b) == Rat(a[1] * b[1], a[2] * b[2])

\* a / b for b not 0
RDiv(a, b) == Rat(a[1] * b[2], a[2] * b[1])

\* comparisons are false when either side is nan
RLt(a, b) == a[2] # 0 /\ b[2] # 0 /\ a[1] * b[2] < b[1] * a[2]

RLe(a, b) == a[2] # 0 /\ b[2] # 0 /\ a[1] * b[2] <= b[1] * a[2]

RAbs(a) == <<Abs(a[1]), a[2]>>

\* Python's max(a, b) and min(a, b): the first argument wins a tie
RMax(a, b) == IF RLt(a, b) THEN b ELSE a

RMin(a, b) == IF RLt(b, a) THEN b ELSE a

RECURSIVE RSum(_)
RSum(s) == IF s = <<>> THEN RInt(0) ELSE RAdd(Head(s), RSum(Tail(s)))

RECURSIVE SeqSum(_)
SeqSum(s) == IF s = <<>> THEN 0 ELSE Head(s) + SeqSum(Tail(s))

\* numpy.mean of a non-empty list of floats
Mean(s) == RDiv(RSum(s), RInt(Len(s)))

\* Python slice s[a:b] of a sequence indexed from 0 (a >= 0): indices past
\* the end are clamped, an empty range gives the empty sequence
Slice(s, a, b) ==
  LET lo == Min2(Max2(a, 0), Len(s))
      hi == Min2(Max2(b, 0), Len(s))
  IN  IF hi <= lo THEN <<>> ELSE SubSeq(s, lo + 1, hi)

\* a list built by a comprehension: the same sequence, every element computed
ListOf(f) == f \o <<>>

\* the element of a one-element set
The(S) == CHOOSE x \in S : TRUE

\* all sequences over S of length lo..hi
SeqsOf(S, lo, hi) == UNION {[1..k -> S] : k \in lo..hi}

-----------------------------------------------------------------------------
(* features.py: AudioFeatures.  A feature set is the list of its frames    *)
(* (column i of mfcc, spectral_centroid[i], pitch[i], rms_energy[i]) with  *)
(* the timing fields.  Frames are drawn from a small palette: a frame with  *)
(* every coefficient 0 that is unvoiced and has no energy, and two voiced   *)
(* frames whose coefficient vectors point in different directions.          *)

FrameZero == [mfcc |-> <<0, 0>>, centroid |-> 0, pitch |-> 0, rms |-> 0]

FrameA == [mfcc |-> <<3, 4>>, centroid |-> 2, pitch |-> 4, rms |-> 2]

FrameB == [mfcc |-> <<3, 0>>, centroid |-> 3, pitch |-> 6, rms |-> 5]

FrameKinds == {FrameZero, FrameA, FrameB}

\* n_frames as extract_features computes it from the audio length L, while
\* every per-frame array has M = 1 + L // hop_length columns:
\*   1 + (L - n_fft) // hop_length = M - n_fft // hop_length
NFramesField(M) == M - FloorDiv(DefaultNFft, DefaultHopLength)

AudioFeatures(frames, n) ==
  [frames |-> frames, sample_rate |-> DefaultSampleRate,
   hop_length |-> DefaultHopLength, n_frames |-> n]

\* what extract_features returns for an audio of M frames
extract_features(frames) == AudioFeatures(frames, NFramesField(Len(frames)))

FrameSeqs == SeqsOf(FrameKinds, 1, MaxFrames)

ExtractedFeatureSets == {extract_features(f) : f \in FrameSeqs}

RefFeatureSets == {extract_features(f) : f \in SeqsOf(FrameKinds, 1, MaxRefFrames)}

\* features.mfcc[:, a:b] : the window of coefficient columns
MfccWindow(features, a, b) ==
  LET w == Slice(features.frames, a, b)
  IN  ListOf([i \in 1..Len(w) |-> w[i].mfcc])

-----------------------------------------------------------------------------
(* alignment.py: align_audio_features.  The warping search is the dtw      *)
(* package's dtw(x, y, step_pattern='symmetric2') with its default         *)
(* Euclidean local distance.                                               *)

SumSqDiff(a, b) == SeqSum([k \in 1..Len(a) |-> (a[k] - b[k]) * (a[k] - b[k])])

\* Euclidean distance of two coefficient vectors, in units of 1/DistScale
Euclidean(a, b) == Isqrt(SumSqDiff(a, b) * DistScale * DistScale)

\* the local cost matrix (rows: query = user, columns: reference)
LocalCosts(x, y) ==
  ListOf([i \in 1..Len(x) |->
           ListOf([j \in 1..Len(y) |-> Euclidean(x[i].mfcc, y[j].mfcc)])])

\* one row of the accumulated cost matrix of symmetric2, filled left to
\* right after the cells acc; prev is the row above (empty for the first)
RECURSIVE CostRow(_, _, _)
CostRow(lrow, prev, acc) ==
  IF Len(acc) = Len(lrow) THEN acc
  ELSE
    LET j == Len(acc) + 1
        cell == IF prev = <<>>
                THEN IF j = 1 THEN lrow[1] ELSE acc[j - 1] + lrow[j]
                ELSE IF j = 1 THEN prev[1] + lrow[1]
                ELSE Min2(Min2(prev[j - 1] + 2 * lrow[j], acc[j - 1] + lrow[j]),
                          prev[j] + lrow[j])
    IN  CostRow(lrow, prev, Append(acc, cell))

\* the rows of the accumulated cost matrix, filled top to bottom
RECURSIVE CostRows(_, _)
CostRows(lm, acc) ==
  IF Len(acc) = Len(lm) THEN acc
  ELSE CostRows(lm, Append(acc, CostRow(lm[Len(acc) + 1],
                                        IF acc = <<>> THEN <<>> ELSE acc[Len(acc)],
                                        <<>>)))

\* The local and accumulated cost matrices (1-based here).
DtwCost(x, y) ==
  LET lm == LocalCosts(x, y)
  IN  [lm |-> lm, cm |-> CostRows(lm, <<>>)]

\* variant of DtwStep in which the last minimum wins a tie
DtwStepLastMinimum(c, i, j) ==
  IF i = 1 THEN 2
  ELSE IF j = 1 THEN 3
  ELSE LET d == c.cm[i - 1][j - 1] + 2 * c.lm[i][j]
           h == c.cm[i][j - 1] + c.lm[i][j]
           v == c.cm[i - 1][j] + c.lm[i][j]
       IN  IF v <= h /\ v <= d THEN 3 ELSE IF h <= d THEN 2 ELSE 1

\* the step taken to reach cell (i, j), in the package's pattern order:
\* 1 = diagonal (weight 2), 2 = along the reference (weight 1), 3 = along
\* the query (weight 1); the first minimum wins (argmin with <)
DtwStep(c, i, j) ==
  IF i = 1 THEN 2
  ELSE IF j = 1 THEN 3
  ELSE LET d == c.cm[i - 1][j - 1] + 2 * c.lm[i][j]
           h == c.cm[i][j - 1] + c.lm[i][j]
           v == c.cm[i - 1][j] + c.lm[i][j]
       IN  IF d <= h /\ d <= v THEN 1 ELSE IF h <= v THEN 2 ELSE 3

\* backtracking from (i, j) to (1, 1); the result is in increasing order
\* and 0-based, as index1/index2 are
RECURSIVE DtwBacktrack(_, _, _)
DtwBacktrack(c, i, j) ==
  IF i = 1 /\ j = 1 THEN << <<0, 0>> >>
  ELSE LET s == DtwStep(c, i, j)
           pi == IF s = 2 THEN i ELSE i - 1
           pj == IF s = 3 THEN j ELSE j - 1
       IN  Append(DtwBacktrack(c, pi, pj), <<i - 1, j - 1>>)

\* dtw(user_mfcc, ref_mfcc, step_pattern='symmetric2'): index1, index2,
\* distance and normalizedDistance (distance / (N + M))
dtw(x, y) ==
  LET c == DtwCost(x, y)
      p == DtwBacktrack(c, Len(x), Len(y))
      d == c.cm[Len(x)][Len(y)]
  IN  [index1 |-> ListOf([k \in 1..Len(p) |-> p[k][1]]),
       index2 |-> ListOf([k \in 1..Len(p) |-> p[k][2]]),
       distance |-> Rat(d, DistScale),
       normalizedDistance |-> Rat(d, DistScale * (Len(x) + Len(y)))]

\* variant of ZipPath with the two index lists taken in the other order
ZipPathSwapped(index1, index2) ==
  ListOf([k \in 1..Min2(Len(index1), Len(index2)) |-> <<index2[k], index1[k]>>])

\* path = list(zip(alignment.index1, alignment.index2))
ZipPath(index1, index2) ==
  ListOf([k \in 1..Min2(Len(index1), Len(index2)) |-> <<index1[k], index2[k]>>])

\* variant of UserToRef that keeps the first mapping of a user frame
UserToRefFirst(path) ==
  [u \in {path[k][1] : k \in 1..Len(path)} |->
     path[CHOOSE k \in 1..Len(path) :
            /\ path[k][1] = u
            /\ \A l \in 1..Len(path) : path[l][1] = u => k <= l][2]]

\* variant of UserToRef that keys the map by the reference index
UserToRefKeyedByRef(path) ==
  [r \in {path[k][2] : k \in 1..Len(path)} |->
     path[CHOOSE k \in 1..Len(path) :
            /\ path[k][2] = r
            /\ \A l \in 1..Len(path) : path[l][2] = r => l <= k][1]]

\* the loop of lines 74-79: last write wins for user->ref, first for ref->user
UserToRef(path) ==
  [u \in {path[k][1] : k \in 1..Len(path)} |->
     path[CHOOSE k \in 1..Len(path) :
            /\ path[k][1] = u
            /\ \A l \in 1..Len(path) : path[l][1] = u => l <= k][2]]

RefToUser(path) ==
  [r \in {path[k][2] : k \in 1..Len(path)} |->
     path[CHOOSE k \in 1..Len(path) :
            /\ path[k][2] = r
            /\ \A l \in 1..Len(path) : path[l][2] = r => l >= k][1]]

\* seconds spanned by k frames of a feature set: k * hop_length / sample_rate
FrameSeconds(features, k) == Rat(k * features.hop_length, features.sample_rate)

\* variant of TimeStretchFrom that divides without testing ref_time > 0
RECURSIVE TimeStretchFromUnguarded(_, _, _, _, _, _)
TimeStretchFromUnguarded(path, user_features, ref_features, n_chunks, segment_size, i) ==
  IF i >= n_chunks THEN <<>>
  ELSE
    LET start_idx == i * segment_size
        end_idx == Min2((i + 1) * segment_size, Len(path) - 1)
    IN  IF start_idx >= Len(path) \/ end_idx >= Len(path) THEN <<>>
        ELSE
          LET user_time == FrameSeconds(user_features,
                             path[end_idx + 1][1] - path[start_idx + 1][1])
              ref_time == FrameSeconds(ref_features,
                             path[end_idx + 1][2] - path[start_idx + 1][2])
          IN  <<RDiv(user_time, ref_time)>>
                \o TimeStretchFromUnguarded(path, user_features, ref_features,
                                            n_chunks, segment_size, i + 1)

\* the loop of compute_time_stretch from chunk i on
RECURSIVE TimeStretchFrom(_, _, _, _, _, _)
TimeStretchFrom(path, user_features, ref_features, n_chunks, segment_size, i) ==
  IF i >= n_chunks THEN <<>>
  ELSE
    LET start_idx == i * segment_size
        end_idx == Min2((i + 1) * segment_size, Len(path) - 1)
    IN  IF start_idx >= Len(path) \/ end_idx >= Len(path) THEN <<>>
        ELSE
          LET user_time == FrameSeconds(user_features,
                             path[end_idx + 1][1] - path[start_idx + 1][1])
              ref_time == FrameSeconds(ref_features,
                             path[end_idx + 1][2] - path[start_idx + 1][2])
              stretch == IF RLt(RInt(0), ref_time)
                         THEN RDiv(user_time, ref_time) ELSE RInt(1)
          IN  <<stretch>> \o TimeStretchFrom(path, user_features, ref_features,
                                             n_chunks, segment_size, i + 1)

compute_time_stretch(path, user_features, ref_features, segment_frames) ==
  IF Len(path) < 2 THEN <<RInt(1)>>
  ELSE
    LET n_chunks == Max2(1, FloorDiv(Len(path), segment_frames))
        segment_size == FloorDiv(Len(path), n_chunks)
        ts == TimeStretchFrom(path, user_features, ref_features,
                              n_chunks, segment_size, 0)
    IN  IF ts = <<>> THEN <<RInt(1)>> ELSE ts

DefaultSegmentFrames == 20

align_audio_features(user_features, ref_features) ==
  LET a == dtw(user_features.frames, ref_features.frames)
      path == ZipPath(a.index1, a.index2)
  IN  [path |-> path,
       distance |-> a.distance,
       normalized_distance |-> a.normalizedDistance,
       user_to_ref |-> UserToRef(path),
       ref_to_user |-> RefToUser(path),
       time_stretch |-> compute_time_stretch(path, user_features, ref_features,
                                             DefaultSegmentFrames)]

-----------------------------------------------------------------------------
(* comparison.py: the segment scorers *)

Dot(a, b) == SeqSum([k \in 1..Len(a) |-> a[k] * b[k]])

\* 1 - scipy.spatial.distance.cosine(a, b), to a multiple of 1/CosScale.  Cosine
\* is scale invariant, so a and b may be any positive multiples of the
\* vectors the code passes.  With a zero vector scipy divides 0 by 0; what
\* 1 - cosine then is depends on the installed scipy (nan, or 1 where cosine
\* clamps through max(0, min(., 2.0))): zero_cos is that outcome.
CosineSimilarity(a, b, zero_cos) ==
  LET uv == Dot(a, b)
      uu == Dot(a, a)
      vv == Dot(b, b)
  IN  IF uu = 0 \/ vv = 0 THEN zero_cos
      ELSE
        LET r == Rat(uv * uv, uu * vv)
            k == (r[1] \div 1000000) + 1
            p == r[1] \div k
            q == r[2] \div k
            c == Isqrt((CosScale * CosScale * p) \div q)
        IN  IF uv < 0 THEN Rat(-c, CosScale) ELSE Rat(c, CosScale)

ZeroCosOutcomes == {NaN, RInt(1)}

\* a vector divided by the gcd of its components (same direction)
RECURSIVE GCDSeq(_)
GCDSeq(v) == IF v = <<>> THEN 0 ELSE GCD(Abs(Head(v)), GCDSeq(Tail(v)))

Reduced(v) ==
  LET g == GCDSeq(v) IN IF g = 0 THEN v ELSE ListOf([k \in 1..Len(v) |-> v[k] \div g])

\* coefficient count of a non-empty window
NCoef(w) == Len(w[1])

\* per-coefficient sums over the columns of a window: n * np.mean(w, axis=1)
ColumnSums(w) == ListOf([k \in 1..NCoef(w) |-> SeqSum([i \in 1..Len(w) |-> w[i][k]])])

\* n^2 * np.var(w, axis=1) = n * sum(x^2) - sum(x)^2, per coefficient
VarNumerators(w) ==
  LET sums == ColumnSums(w)
  IN  ListOf([k \in 1..NCoef(w) |->
                Len(w) * SeqSum([i \in 1..Len(w) |-> w[i][k] * w[i][k]])
                  - sums[k] * sums[k]])

\* the direction of np.var(w, axis=1) + 1e-6: the all-ones direction when
\* every variance is 0; otherwise the 1e-6 is below the fixed-point
\* resolution and the direction is that of the variances
VarDirection(w) ==
  LET v == VarNumerators(w)
  IN  IF \A k \in 1..Len(v) : v[k] = 0 THEN ListOf([k \in 1..Len(v) |-> 1])
      ELSE Reduced(v)

\* variant of compare_mfcc_segment without the max(0, .) of line 165
compare_mfcc_segment_unclamped(user_mfcc, ref_mfcc, zero_cos) ==
  IF user_mfcc = <<>> \/ ref_mfcc = <<>> THEN RInt(50)
  ELSE
    LET similarity == CosineSimilarity(Reduced(ColumnSums(user_mfcc)),
                                       Reduced(ColumnSums(ref_mfcc)), zero_cos)
        var_similarity == CosineSimilarity(VarDirection(user_mfcc),
                                           VarDirection(ref_mfcc), zero_cos)
        combined == RAdd(RMul(Rat(7, 10), similarity), RMul(Rat(3, 10), var_similarity))
        score == RMul(RDiv(RSub(combined, Rat(3, 10)), Rat(7, 10)), RInt(100))
    IN  RMin(RInt(100), score)

\* variant of compare_mfcc_segment that scores an empty window 0 instead of
\* the neutral 50
compare_mfcc_segment_empty_zero(user_mfcc, ref_mfcc, zero_cos) ==
  IF user_mfcc = <<>> \/ ref_mfcc = <<>> THEN RInt(0)
  ELSE compare_mfcc_segment_unclamped(user_mfcc, ref_mfcc, zero_cos)

\* compare_mfcc_segment; a window is the list of its columns, so
\* window.size == 0 is the empty list
compare_mfcc_segment(user_mfcc, ref_mfcc, zero_cos) ==
  IF user_mfcc = <<>> \/ ref_mfcc = <<>> THEN RInt(50)
  ELSE
    LET similarity == CosineSimilarity(Reduced(ColumnSums(user_mfcc)),
                                       Reduced(ColumnSums(ref_mfcc)), zero_cos)
        var_similarity == CosineSimilarity(VarDirection(user_mfcc),
                                           VarDirection(ref_mfcc), zero_cos)
        \* max(0, nan) is 0: a nan similarity scores 0
        combined == RAdd(RMul(Rat(7, 10), similarity), RMul(Rat(3, 10), var_similarity))
        score == RMul(RMax(RInt(0), RDiv(RSub(combined, Rat(3, 10)), Rat(7, 10))), RInt(100))
    IN  RMin(RInt(100), score)

\* the duration ratio of compare_timing_segment, defined when the reference
\* duration is not 0
DurationRatio(user_start, user_end, user_features, ref_start, ref_end, ref_features) ==
  RDiv(FrameSeconds(user_features, user_end - user_start),
       FrameSeconds(ref_features, ref_end - ref_start))

\* variant of TimingBandScore whose good band scores a flat 100
TimingBandScoreFlat(ratio) ==
  IF RLe(Rat(4, 5), ratio) /\ RLe(ratio, Rat(6, 5))
  THEN RInt(100)
  ELSE IF RLe(Rat(1, 2), ratio) /\ RLe(ratio, Rat(3, 2))
  THEN LET deviation == IF RLt(ratio, RInt(1))
                        THEN RDiv(RSub(Rat(4, 5), ratio), Rat(3, 10))
                        ELSE RDiv(RSub(ratio, Rat(6, 5)), Rat(3, 10))
       IN  RSub(RInt(80), RMul(deviation, RInt(30)))
  ELSE RMax(RInt(0), RSub(RInt(50), RMul(RAbs(RSub(ratio, RInt(1))), RInt(25))))

\* the score of a ratio before the final clamp (lines 195-208)
TimingBandScore(ratio) ==
  IF RLe(Rat(4, 5), ratio) /\ RLe(ratio, Rat(6, 5))
  THEN \* 100 - (|ratio - 1| / 0.2) * 20
       RSub(RInt(100), RMul(RDiv(RAbs(RSub(ratio, RInt(1))), Rat(1, 5)), RInt(20)))
  ELSE IF RLe(Rat(1, 2), ratio) /\ RLe(ratio, Rat(3, 2))
  THEN LET deviation == IF RLt(ratio, RInt(1))
                        THEN RDiv(RSub(Rat(4, 5), ratio), Rat(3, 10))
                        ELSE RDiv(RSub(ratio, Rat(6, 5)), Rat(3, 10))
       IN  RSub(RInt(80), RMul(deviation, RInt(30)))
  ELSE \* max(0, 50 - |ratio - 1| * 25)
       RMax(RInt(0), RSub(RInt(50), RMul(RAbs(RSub(ratio, RInt(1))), RInt(25))))

\* variant of compare_timing_segment that takes the ratio reference / user
compare_timing_segment_inverted(user_start, user_end, user_features, ref_start, ref_end, ref_features) ==
  IF FrameSeconds(user_features, user_end - user_start) = RInt(0) THEN RInt(50)
  ELSE LET ratio == DurationRatio(ref_start, ref_end, ref_features,
                                  user_start, user_end, user_features)
       IN  RMin(RInt(100), RMax(RInt(0), TimingBandScore(ratio)))

compare_timing_segment(user_start, user_end, user_features, ref_start, ref_end, ref_features) ==
  IF FrameSeconds(ref_features, ref_end - ref_start) = RInt(0) THEN RInt(50)
  ELSE LET ratio == DurationRatio(user_start, user_end, user_features,
                                  ref_start, ref_end, ref_features)
       IN  RMin(RInt(100), RMax(RInt(0), TimingBandScore(ratio)))

-----------------------------------------------------------------------------
(* comparison.py: detect_issues *)

\* np.mean(w[lo:hi, :]) over coefficient rows lo..hi-1 (0-based) and every
\* column of a non-empty window; nan when the row range is empty
RowsMean(w, lo, hi) ==
  LET rows == {k \in 1..NCoef(w) : lo < k /\ k <= hi}
      total == SeqSum([i \in 1..Len(w) |->
                 SeqSum([k \in 1..NCoef(w) |-> IF k \in rows THEN w[i][k] ELSE 0])])
  IN  IF rows = {} THEN NaN ELSE Rat(total, Len(w) * Cardinality(rows))

\* abs(a - b) on floats that may be nan
AbsDiff(a, b) == IF a = NaN \/ b = NaN THEN NaN ELSE RAbs(RSub(a, b))

\* a > b and a < b on floats that may be nan (false when either is)
FGt(a, b) == a # NaN /\ b # NaN /\ RLt(b, a)

FLt(a, b) == a # NaN /\ b # NaN /\ RLt(a, b)

\* arr[a:b] of one per-frame array
FieldSlice(features, field, a, b) ==
  LET w == Slice(features.frames, a, b)
  IN  ListOf([i \in 1..Len(w) |-> w[i][field]])

\* np.mean of a list of numbers; nan for the empty list
MeanOrNaN(s) == IF s = <<>> THEN NaN ELSE Rat(SeqSum(s), Len(s))

\* arr[arr > 0]
RECURSIVE Voiced(_)
Voiced(s) ==
  IF s = <<>> THEN <<>>
  ELSE IF Head(s) > 0 THEN <<Head(s)>> \o Voiced(Tail(s)) ELSE Voiced(Tail(s))

\* n^2 * np.var(s) of a non-empty list
VarNumerator(s) ==
  Len(s) * SeqSum([i \in 1..Len(s) |-> s[i] * s[i]]) - SeqSum(s) * SeqSum(s)

\* np.std(a) > np.std(b) * 3/2, compared on the squares
StdExceeds(a, b) ==
  4 * VarNumerator(a) * Len(b) * Len(b) > 9 * VarNumerator(b) * Len(a) * Len(a)

\* np.max(np.abs(np.diff(s))) for a list of at least two numbers
MaxJump(s) ==
  LET d == {Abs(s[i + 1] - s[i]) : i \in 1..(Len(s) - 1)}
  IN  CHOOSE m \in d : \A x \in d : x <= m

SegTimingIssues(user_features, ref_features, user_start, user_end, ref_start, ref_end) ==
  LET ref_duration == FrameSeconds(ref_features, ref_end - ref_start)
      ratio == DurationRatio(user_start, user_end, user_features, ref_start, ref_end, ref_features)
  IN  IF RLt(RInt(0), ref_duration)
      THEN IF RLt(ratio, Rat(7, 10))
           THEN <<"Reciting too fast - consider slowing down for proper madd">>
           ELSE IF RLt(Rat(3, 2), ratio)
           THEN <<"Reciting too slow - elongation may be excessive">>
           ELSE <<>>
      ELSE <<>>

SegMakhrajIssues(user_features, ref_features, user_start, user_end, ref_start, ref_end, makhraj_score) ==
  LET user_mfcc == MfccWindow(user_features, user_start, user_end + 1)
      ref_mfcc == MfccWindow(ref_features, ref_start, ref_end + 1)
  IN  IF user_mfcc = <<>> \/ ref_mfcc = <<>> THEN <<>>
      ELSE
        LET user_low == RowsMean(user_mfcc, 1, 5)
            ref_low == RowsMean(ref_mfcc, 1, 5)
            low_diff == AbsDiff(user_low, ref_low)
            user_high == IF NCoef(user_mfcc) > 8 THEN RowsMean(user_mfcc, 5, 9) ELSE RInt(0)
            ref_high == IF NCoef(ref_mfcc) > 8 THEN RowsMean(ref_mfcc, 5, 9) ELSE RInt(0)
            high_diff == AbsDiff(user_high, ref_high)
            user_centroid == MeanOrNaN(FieldSlice(user_features, "centroid", user_start, user_end + 1))
            ref_centroid == MeanOrNaN(FieldSlice(ref_features, "centroid", ref_start, ref_end + 1))
            centroid_ratio == IF FGt(ref_centroid, RInt(0))
                              THEN RDiv(user_centroid, ref_centroid) ELSE RInt(1)
            mild ==
              IF RLt(makhraj_score, RInt(80))
              THEN (IF FGt(low_diff, RInt(5))
                    THEN IF FLt(user_low, ref_low)
                         THEN <<"Throat position may need adjustment - try deeper articulation">>
                         ELSE <<"Tongue position differs from reference - check makhraj">>
                    ELSE <<>>)
                   \o (IF FGt(high_diff, RInt(3))
                       THEN <<"Fine articulation differs - focus on letter clarity">>
                       ELSE <<>>)
                   \o (IF FLt(centroid_ratio, Rat(7, 10))
                       THEN <<"Sound is duller than reference - more clarity needed">>
                       ELSE IF FGt(centroid_ratio, Rat(7, 5))
                       THEN <<"Sound is sharper than reference - soften the articulation">>
                       ELSE <<>>)
              ELSE <<>>
            severe ==
              IF RLt(makhraj_score, RInt(60))
              THEN (IF FGt(low_diff, RInt(8))
                    THEN <<"Significant makhraj difference detected - review articulation point">>
                    ELSE <<>>)
                   \o (IF FGt(high_diff, RInt(5))
                       THEN <<"Letter characteristics need improvement">>
                       ELSE <<>>)
              ELSE <<>>
        IN  mild \o severe

SegPitchIssues(user_features, ref_features, user_start, user_end, ref_start, ref_end) ==
  IF ~(user_end > user_start /\ ref_end > ref_start) THEN <<>>
  ELSE
    LET user_voiced == Voiced(FieldSlice(user_features, "pitch", user_start, user_end + 1))
        ref_voiced == Voiced(FieldSlice(ref_features, "pitch", ref_start, ref_end + 1))
    IN  IF user_voiced = <<>> \/ ref_voiced = <<>> THEN <<>>
        ELSE
          LET user_mean_pitch == MeanOrNaN(user_voiced)
              ref_mean_pitch == MeanOrNaN(ref_voiced)
              pitch_ratio == IF RLt(RInt(0), ref_mean_pitch)
                             THEN RDiv(user_mean_pitch, ref_mean_pitch) ELSE RInt(1)
              ref_max_jump == IF Len(ref_voiced) > 3 THEN MaxJump(ref_voiced) ELSE 50
          IN  (IF RLt(Rat(13, 10), pitch_ratio)
               THEN <<"Pitch is too high - recite in a lower, more natural tone">>
               ELSE IF RLt(pitch_ratio, Rat(7, 10))
               THEN <<"Pitch is too low - raise your tone slightly">>
               ELSE <<>>)
              \o (IF StdExceeds(user_voiced, ref_voiced)
                  THEN <<"Pitch variation detected - maintain steadier tone">>
                  ELSE <<>>)
              \o (IF Len(user_voiced) > 3
                     /\ 2 * MaxJump(user_voiced) > 3 * ref_max_jump
                     /\ MaxJump(user_voiced) > 30
                  THEN <<"Sudden pitch change detected - keep tone consistent">>
                  ELSE <<>>)

SegEnergyIssues(user_features, ref_features, user_start, user_end, ref_start, ref_end) ==
  IF ~(user_end > user_start /\ ref_end > ref_start) THEN <<>>
  ELSE
    LET user_energy == MeanOrNaN(FieldSlice(user_features, "rms", user_start, user_end + 1))
        ref_energy == MeanOrNaN(FieldSlice(ref_features, "rms", ref_start, ref_end + 1))
    IN  IF FGt(ref_energy, RInt(0))
        THEN IF FLt(RDiv(user_energy, ref_energy), Rat(1, 2))
             THEN <<"Consider more emphasis/projection">>
             ELSE IF FGt(RDiv(user_energy, ref_energy), RInt(2))
             THEN <<"Reduce volume for this segment">>
             ELSE <<>>
        ELSE <<>>

detect_issues(user_features, ref_features, user_start, user_end, ref_start, ref_end, makhraj_score, timing_score) ==
  SegTimingIssues(user_features, ref_features, user_start, user_end, ref_start, ref_end)
    \o SegMakhrajIssues(user_features, ref_features, user_start, user_end, ref_start, ref_end, makhraj_score)
    \o SegPitchIssues(user_features, ref_features, user_start, user_end, ref_start, ref_end)
    \o SegEnergyIssues(user_features, ref_features, user_start, user_end, ref_start, ref_end)

-----------------------------------------------------------------------------
(* alignment.py: segment_alignment; comparison.py: compare_recitations,    *)
(* generate_summary.  A call either returns a value or raises: its result  *)
(* is [raised |-> exception name or None, value |-> ...].                  *)

Returned(v) == [raised |-> None, value |-> v]

Raised(e) == [raised |-> e, value |-> None]

\* Python's s[i] on a list: i in -len..len-1, negative counts from the end
PyIndexOk(s, i) == -Len(s) <= i /\ i < Len(s)

PyIndex(s, i) == IF i >= 0 THEN s[i + 1] ELSE s[Len(s) + i + 1]

\* variant of ChunkBounds whose chunk length is rounded up
ChunkBoundsRoundedUp(path_len, segment_size, i) ==
  <<i * (segment_size + 1), Min2((i + 1) * (segment_size + 1) - 1, path_len - 1)>>

\* the chunk of path indices segment i is read from: (start_idx, end_idx)
ChunkBounds(path_len, segment_size, i) ==
  <<i * segment_size, Min2((i + 1) * segment_size - 1, path_len - 1)>>

segment_alignment(align, n) ==
  IF n = 0 THEN Raised("ZeroDivisionError")
  ELSE
    LET path == align.path
        segment_size == FloorDiv(Len(path), n)
        bounds == ListOf([i \in 1..n |-> ChunkBounds(Len(path), segment_size, i - 1)])
    IN  IF \E i \in 1..n : ~PyIndexOk(path, bounds[i][1]) \/ ~PyIndexOk(path, bounds[i][2])
        THEN Raised("IndexError")
        ELSE Returned(ListOf([i \in 1..n |->
               LET first == PyIndex(path, bounds[i][1])
                   last == PyIndex(path, bounds[i][2])
               IN  << <<first[1], last[1]>>, <<first[2], last[2]>> >>]))

\* str(k) for 0 <= k <= 99, as the f-string formats problem_segments
Digit(k) == <<"0", "1", "2", "3", "4", "5", "6", "7", "8", "9">>[k + 1]

DecimalString(k) == IF k < 10 THEN Digit(k) ELSE Digit(k \div 10) \o Digit(k % 10)

\* " ".join(parts)
RECURSIVE JoinWithSpaces(_)
JoinWithSpaces(parts) ==
  IF parts = <<>> THEN ""
  ELSE IF Len(parts) = 1 THEN parts[1]
  ELSE parts[1] \o " " \o JoinWithSpaces(Tail(parts))

\* sum(1 for s in segments if s.issues)
ProblemSegments(segments) ==
  Cardinality({i \in 1..Len(segments) : segments[i].issues # <<>>})

\* the parts of the summary before the count of problem segments
AssessmentParts(overall_score, makhraj_score, timing_score, fluency_score) ==
  (IF RLe(RInt(90), overall_score)
   THEN <<"Excellent recitation! Very close to the reference.">>
   ELSE IF RLe(RInt(75), overall_score)
   THEN <<"Good recitation with minor areas for improvement.">>
   ELSE IF RLe(RInt(60), overall_score)
   THEN <<"Acceptable recitation. Focus on the highlighted areas.">>
   ELSE <<"Needs practice. Review the specific feedback below.">>)
  \o (IF RLt(makhraj_score, RInt(70))
      THEN <<"Pay attention to articulation points (makhraj).">> ELSE <<>>)
  \o (IF RLt(timing_score, RInt(70))
      THEN <<"Work on timing - check madd elongation rules.">> ELSE <<>>)
  \o (IF RLt(fluency_score, RInt(70))
      THEN <<"Practice for smoother, more fluent recitation.">> ELSE <<>>)

\* variant of generate_summary whose last sentence counts every segment
generate_summary_counting_all(overall_score, makhraj_score, timing_score, fluency_score, segments) ==
  JoinWithSpaces(
    AssessmentParts(overall_score, makhraj_score, timing_score, fluency_score)
    \o (IF ProblemSegments(segments) > 0
        THEN <<DecimalString(Len(segments)) \o " segment(s) need attention.">>
        ELSE <<>>))

\* the summary string
generate_summary(overall_score, makhraj_score, timing_score, fluency_score, segments) ==
  JoinWithSpaces(
    AssessmentParts(overall_score, makhraj_score, timing_score, fluency_score)
    \o (IF ProblemSegments(segments) > 0
        THEN <<DecimalString(ProblemSegments(segments)) \o " segment(s) need attention.">>
        ELSE <<>>))

\* the body of the loop of compare_recitations for one segment
SegmentFeedbackOf(user_features, ref_features, seg, zero_cos) ==
  LET user_start == seg[1][1]
      user_end == seg[1][2]
      ref_start == seg[2][1]
      ref_end == seg[2][2]
      makhraj_score == compare_mfcc_segment(MfccWindow(user_features, user_start, user_end + 1),
                                            MfccWindow(ref_features, ref_start, ref_end + 1), zero_cos)
      timing_score == compare_timing_segment(user_start, user_end, user_features, ref_start, ref_end, ref_features)
  IN  [start_time |-> FrameSeconds(user_features, user_start),
       end_time |-> FrameSeconds(user_features, user_end),
       makhraj_score |-> makhraj_score,
       timing_score |-> timing_score,
       overall_score |-> RAdd(RMul(Rat(6, 10), makhraj_score), RMul(Rat(4, 10), timing_score)),
       issues |-> detect_issues(user_features, ref_features, user_start, user_end,
                                ref_start, ref_end, makhraj_score, timing_score)]

MaxExpectedDistance == 50

\* variant of FluencyScore without the lower clamp
FluencyScoreUnclamped(normalized_distance) ==
  RMin(RInt(100),
       RSub(RInt(100), RMul(RDiv(normalized_distance, RInt(MaxExpectedDistance)), RInt(100))))

\* fluency_score of lines 112-114
FluencyScore(normalized_distance) ==
  RMin(RInt(100),
       RMax(RInt(0),
            RSub(RInt(100), RMul(RDiv(normalized_distance, RInt(MaxExpectedDistance)), RInt(100)))))

\* variant of OverallScore that weighs the three scores equally
OverallScoreEqualWeights(avg_makhraj, avg_timing, fluency_score) ==
  RDiv(RAdd(RAdd(avg_makhraj, avg_timing), fluency_score), RInt(3))

\* overall_score of line 117
OverallScore(avg_makhraj, avg_timing, fluency_score) ==
  RAdd(RAdd(RMul(Rat(5, 10), avg_makhraj), RMul(Rat(3, 10), avg_timing)),
       RMul(Rat(2, 10), fluency_score))

\* the loop of lines 66-103: one SegmentFeedback per segment
SegmentFeedbacks(user_features, ref_features, segments, zero_cos) ==
  ListOf([i \in 1..Len(segments) |->
            SegmentFeedbackOf(user_features, ref_features, segments[i], zero_cos)])

\* lines 105-132: the aggregates and the report built from the feedbacks
ReportOf(align, segment_feedbacks) ==
  LET makhraj_scores == ListOf([i \in 1..Len(segment_feedbacks) |-> segment_feedbacks[i].makhraj_score])
      timing_scores == ListOf([i \in 1..Len(segment_feedbacks) |-> segment_feedbacks[i].timing_score])
      avg_makhraj == IF makhraj_scores # <<>> THEN Mean(makhraj_scores) ELSE RInt(0)
      avg_timing == IF timing_scores # <<>> THEN Mean(timing_scores) ELSE RInt(0)
      fluency_score == FluencyScore(align.normalized_distance)
      overall_score == OverallScore(avg_makhraj, avg_timing, fluency_score)
  IN  [overall_score |-> overall_score,
       makhraj_score |-> avg_makhraj,
       timing_score |-> avg_timing,
       fluency_score |-> fluency_score,
       segments |-> segment_feedbacks,
       summary |-> generate_summary(overall_score, avg_makhraj, avg_timing,
                                    fluency_score, segment_feedbacks)]

compare_recitations(user_features, ref_features, align, n, zero_cos) ==
  LET segments == segment_alignment(align, n)
  IN  IF segments.raised # None THEN segments
      ELSE Returned(The({ReportOf(align, segment_feedbacks) :
                           segment_feedbacks \in {SegmentFeedbacks(user_features, ref_features,
                                                                   segments.value, zero_cos)}}))

-----------------------------------------------------------------------------
(* comparison.py: compare_word_by_word, detect_word_issues *)

WordTimingIssues(user_features, ref_features, user_start, user_end, ref_start, ref_end) ==
  LET ref_duration == FrameSeconds(ref_features, ref_end - ref_start)
      ratio == DurationRatio(user_start, user_end, user_features, ref_start, ref_end, ref_features)
  IN  IF RLt(RInt(0), ref_duration)
      THEN IF RLt(ratio, Rat(6, 10)) THEN <<"Too fast - extend this word">>
           ELSE IF RLt(Rat(16, 10), ratio) THEN <<"Too slow - shorten this word">>
           ELSE <<>>
      ELSE <<>>

WordMakhrajIssues(user_features, ref_features, user_start, user_end, ref_start, ref_end, makhraj_score) ==
  LET user_mfcc == MfccWindow(user_features, user_start, user_end)
      ref_mfcc == MfccWindow(ref_features, ref_start, ref_end)
  IN  IF ~RLt(makhraj_score, RInt(75)) \/ user_mfcc = <<>> \/ ref_mfcc = <<>> THEN <<>>
      ELSE
        LET user_low == RowsMean(user_mfcc, 1, 5)
            ref_low == RowsMean(ref_mfcc, 1, 5)
            low_diff == AbsDiff(user_low, ref_low)
            user_high == IF NCoef(user_mfcc) > 8 THEN RowsMean(user_mfcc, 5, 9) ELSE RInt(0)
            ref_high == IF NCoef(ref_mfcc) > 8 THEN RowsMean(ref_mfcc, 5, 9) ELSE RInt(0)
            high_diff == AbsDiff(user_high, ref_high)
        IN  (IF FGt(low_diff, RInt(6))
             THEN IF FLt(user_low, ref_low)
                  THEN <<"Articulation point too shallow">>
                  ELSE <<"Articulation point too deep">>
             ELSE <<>>)
            \o (IF FGt(high_diff, RInt(4)) /\ RLt(makhraj_score, RInt(65))
                THEN <<"Letter clarity needs work">> ELSE <<>>)

WordPitchIssues(user_features, ref_features, user_start, user_end, ref_start, ref_end) ==
  LET user_voiced == Voiced(FieldSlice(user_features, "pitch", user_start, user_end))
      ref_voiced == Voiced(FieldSlice(ref_features, "pitch", ref_start, ref_end))
  IN  IF user_voiced = <<>> \/ ref_voiced = <<>> THEN <<>>
      ELSE
        LET user_mean_pitch == MeanOrNaN(user_voiced)
            ref_mean_pitch == MeanOrNaN(ref_voiced)
            pitch_ratio == IF RLt(RInt(0), ref_mean_pitch)
                           THEN RDiv(user_mean_pitch, ref_mean_pitch) ELSE RInt(1)
            ref_max_jump == IF Len(ref_voiced) > 3 THEN MaxJump(ref_voiced) ELSE 40
        IN  (IF RLt(Rat(14, 10), pitch_ratio) THEN <<"Pitch too high">>
             ELSE IF RLt(pitch_ratio, Rat(65, 100)) THEN <<"Pitch too low">>
             ELSE <<>>)
            \o (IF Len(user_voiced) > 3
                   /\ 10 * MaxJump(user_voiced) > 14 * ref_max_jump
                   /\ MaxJump(user_voiced) > 25
                THEN <<"Unstable pitch">> ELSE <<>>)

WordEnergyIssues(user_features, ref_features, user_start, user_end, ref_start, ref_end) ==
  LET user_energy == MeanOrNaN(FieldSlice(user_features, "rms", user_start, user_end))
      ref_energy == MeanOrNaN(FieldSlice(ref_features, "rms", ref_start, ref_end))
  IN  IF FGt(ref_energy, RInt(0))
      THEN IF FLt(RDiv(user_energy, ref_energy), Rat(4, 10)) THEN <<"Too quiet">>
           ELSE IF FGt(RDiv(user_energy, ref_energy), Rat(25, 10)) THEN <<"Too loud">>
           ELSE <<>>
      ELSE <<>>

detect_word_issues(user_features, ref_features, user_start, user_end, ref_start, ref_end, makhraj_score, timing_score, word_text) ==
  IF user_end <= user_start \/ ref_end <= ref_start THEN <<>>
  ELSE WordTimingIssues(user_features, ref_features, user_start, user_end, ref_start, ref_end)
         \o WordMakhrajIssues(user_features, ref_features, user_start, user_end, ref_start, ref_end, makhraj_score)
         \o WordPitchIssues(user_features, ref_features, user_start, user_end, ref_start, ref_end)
         \o WordEnergyIssues(user_features, ref_features, user_start, user_end, ref_start, ref_end)

\* int((ms / 1000) / frame_duration) with frame_duration = hop_length / sample_rate
MsToFrame(ref_features, ms) ==
  TruncDiv(ms * ref_features.sample_rate, 1000 * ref_features.hop_length)

\* variant of WordRefRange that does not clamp the two frame indices
WordRefRangeUnclamped(ref_features, word) ==
  <<MsToFrame(ref_features, word.start_ms), MsToFrame(ref_features, word.end_ms)>>

\* lines 379-384: the clamped reference range of a word, (start, end)
WordRefRange(ref_features, word) ==
  LET ref_start_frame == Max2(0, Min2(MsToFrame(ref_features, word.start_ms), ref_features.n_frames - 1))
      ref_end_frame == Max2(ref_start_frame + 1,
                            Min2(MsToFrame(ref_features, word.end_ms), ref_features.n_frames))
  IN  <<ref_start_frame, ref_end_frame>>

\* lines 388-391: the user frames of the path entries whose reference frame
\* lies in [ref_start_frame, ref_end_frame)
UserFramesForWord(path, ref_start_frame, ref_end_frame) ==
  {path[k][1] : k \in {l \in 1..Len(path) : ref_start_frame <= path[l][2] /\ path[l][2] < ref_end_frame}}

SetMin(S) == CHOOSE m \in S : \A x \in S : m <= x

SetMax(S) == CHOOSE m \in S : \A x \in S : x <= m

\* lines 365: the record of a word without valid timing
IsSentinel(word) == word.start_ms = 0 /\ word.end_ms = 0

\* variant of SentinelFeedback that treats the word as one without alignment
SentinelFeedbackAsSkipped(word) ==
  [word_index |-> word.word_index, text |-> word.text,
   start_time |-> RInt(0), end_time |-> RInt(0),
   makhraj_score |-> RInt(30), timing_score |-> RInt(30), overall_score |-> RInt(30),
   issues |-> <<"Word may have been skipped or unclear">>]

SentinelFeedback(word) ==
  [word_index |-> word.word_index, text |-> word.text,
   start_time |-> RInt(0), end_time |-> RInt(0),
   makhraj_score |-> RInt(50), timing_score |-> RInt(50), overall_score |-> RInt(50),
   issues |-> <<>>]

\* variant of SkippedFeedback that reports no diagnostic
SkippedFeedbackSilent(word) ==
  [word_index |-> word.word_index, text |-> word.text,
   start_time |-> Rat(word.start_ms, 1000), end_time |-> Rat(word.end_ms, 1000),
   makhraj_score |-> RInt(30), timing_score |-> RInt(30), overall_score |-> RInt(30),
   issues |-> <<>>]

SkippedFeedback(word) ==
  [word_index |-> word.word_index, text |-> word.text,
   start_time |-> Rat(word.start_ms, 1000), end_time |-> Rat(word.end_ms, 1000),
   makhraj_score |-> RInt(30), timing_score |-> RInt(30), overall_score |-> RInt(30),
   issues |-> <<"Word may have been skipped or unclear">>]

\* the body of the loop of compare_word_by_word for one word
WordFeedbackOf(user_features, ref_features, align, word, zero_cos) ==
  IF IsSentinel(word) THEN SentinelFeedback(word)
  ELSE
    LET range == WordRefRange(ref_features, word)
        user_frames_for_word == UserFramesForWord(align.path, range[1], range[2])
    IN  IF user_frames_for_word = {} THEN SkippedFeedback(word)
        ELSE
          LET user_start_frame == SetMin(user_frames_for_word)
              user_end_frame == SetMax(user_frames_for_word) + 1
              makhraj_score == compare_mfcc_segment(MfccWindow(user_features, user_start_frame, user_end_frame),
                                                    MfccWindow(ref_features, range[1], range[2]), zero_cos)
              timing_score == compare_timing_segment(user_start_frame, user_end_frame, user_features,
                                                     range[1], range[2], ref_features)
          IN  [word_index |-> word.word_index, text |-> word.text,
               start_time |-> FrameSeconds(user_features, user_start_frame),
               end_time |-> FrameSeconds(user_features, user_end_frame),
               makhraj_score |-> makhraj_score,
               timing_score |-> timing_score,
               overall_score |-> RAdd(RMul(Rat(6, 10), makhraj_score), RMul(Rat(4, 10), timing_score)),
               issues |-> detect_word_issues(user_features, ref_features, user_start_frame, user_end_frame,
                                             range[1], range[2], makhraj_score, timing_score, word.text)]

\* variant of compare_word_by_word that emits nothing for a word without
\* valid timing
RECURSIVE compare_word_by_word_skipping(_, _, _, _, _)
compare_word_by_word_skipping(user_features, ref_features, align, timings, zero_cos) ==
  IF timings = <<>> THEN <<>>
  ELSE (IF IsSentinel(Head(timings)) THEN <<>>
        ELSE <<WordFeedbackOf(user_features, ref_features, align, Head(timings), zero_cos)>>)
       \o compare_word_by_word_skipping(user_features, ref_features, align, Tail(timings), zero_cos)

compare_word_by_word(user_features, ref_features, align, timings, zero_cos) ==
  ListOf([i \in 1..Len(timings) |-> WordFeedbackOf(user_features, ref_features, align, timings[i], zero_cos)])

-----------------------------------------------------------------------------
(* Inputs of the model *)

\* word boundary records {word_index, text, start_ms, end_ms}: the 0/0
\* sentinel, words inside the reference, a word with end_ms <= start_ms and
\* a word past the end of the reference
BoundaryTimes == {<<0, 0>>, <<0, 30>>, <<30, 60>>, <<60, 30>>, <<100, 120>>}

\* the boundaries of a request: the 0/0 sentinel and a word inside the reference
RequestTimes == {<<0, 0>>, <<30, 60>>}

WordText == "bismi"

\* the lists of at most k records with boundaries from times, word_index
\* counting from 0
WordLists(times, k) ==
  UNION {{ListOf([i \in 1..len |->
                   [word_index |-> i - 1, text |-> WordText,
                    start_ms |-> bt[i][1], end_ms |-> bt[i][2]]]) :
          bt \in [1..len -> times]} : len \in 0..k}

\* word_timings as get_reference_with_timings returns it: None or a list
\* an Optional[list]: None is [present |-> FALSE]
NoList == [present |-> FALSE, list |-> <<>>]

SomeList(l) == [present |-> TRUE, list |-> l]

WordTimingInputs == {NoList} \cup {SomeList(l) : l \in WordLists(RequestTimes, MaxWords)}

\* Python's truth value of an Optional[list]
Truthy(wt) == wt.present /\ wt.list # <<>>

\* every path from (0, 0) whose steps advance the user index, the reference
\* index or both by one
RECURSIVE PathsOfLen(_)
PathsOfLen(k) ==
  IF k = 1 THEN {<< <<0, 0>> >>}
  ELSE {Append(p, <<p[Len(p)][1] + d[1], p[Len(p)][2] + d[2]>>) :
          p \in PathsOfLen(k - 1), d \in {<<1, 1>>, <<0, 1>>, <<1, 0>>}}

MonotonePaths == UNION {PathsOfLen(k) : k \in 1..MaxPathLen}

\* the normalized distances of the alignments passed to compare_recitations
Distances == {Rat(25 * k, 2) : k \in 0..MaxDistanceSteps}

\* an AlignmentResult around a given path, with a given normalized distance
\* (the distance divided by the two frame counts, as normalizedDistance is)
AlignmentOfPath(path, user_features, ref_features, normalized_distance) ==
  [path |-> path,
   distance |-> RMul(normalized_distance,
                     RInt(Len(user_features.frames) + Len(ref_features.frames))),
   normalized_distance |-> normalized_distance,
   user_to_ref |-> UserToRef(path),
   ref_to_user |-> RefToUser(path),
   time_stretch |-> compute_time_stretch(path, user_features, ref_features, DefaultSegmentFrames)]

\* len frames, first second first second ...
Alternating(first, second, len) == [i \in 1..len |-> IF i % 2 = 1 THEN first ELSE second]

\* calls of compare_timing_segment: (user_start, user_end, ref_start, ref_end)
TimingCalls ==
  {<<us, ue, rs, re>> : us \in 0..1, ue \in 0..MaxSpan, rs \in 0..1, re \in 0..MaxSpan}

\* coefficient columns of the windows passed to compare_mfcc_segment
CoefVectors == {<<0, 0>>, <<3, 4>>, <<3, 0>>, <<-3, -4>>, <<0, -2>>}

MfccWindows == SeqsOf(CoefVectors, 0, MaxWindow)

\* the recordings passed to detect_issues and detect_word_issues: n_mfcc = 9
\* coefficients per frame (rows 1..4 are the low band, rows 5..8 the high
\* band), described by the level of each band, the spectral centroid, the
\* pitch contour and the RMS energy
PitchAt(contour, i) ==
  IF contour = "unvoiced" THEN 0
  ELSE IF contour = "steady" THEN 100
  ELSE IF i % 2 = 1 THEN 100 ELSE 140

DetectFrame(low, high, centroid, pitch, rms) ==
  [mfcc |-> <<0, low, low, low, low, high, high, high, high>>,
   centroid |-> centroid, pitch |-> pitch, rms |-> rms]

Recording(low, high, centroid, contour, rms) ==
  extract_features(ListOf([i \in 1..MaxDetectFrames |->
                             DetectFrame(low, high, centroid, PitchAt(contour, i), rms)]))

DetectUserSets ==
  {Recording(low, high, centroid, contour, rms) :
     low \in {0, 10}, high \in {0, 6}, centroid \in {6, 10},
     contour \in {"unvoiced", "steady", "jumpy"}, rms \in {4, 10}}

DetectRefSets ==
  {Recording(0, 0, centroid, contour, rms) :
     centroid \in {0, 10}, contour \in {"unvoiced", "steady"}, rms \in {0, 10}}

\* the makhraj_score argument of a detection call
DetectScores == {RInt(50), RInt(62), RInt(70), RInt(78), RInt(100)}

\* calls of detect_issues and detect_word_issues: spans from frame 0
DetectCalls ==
  {[user_start |-> 0, user_end |-> ue, ref_start |-> 0, ref_end |-> re,
    makhraj_score |-> m, timing_score |-> RInt(50)] :
     ue \in 0..(MaxDetectFrames - 1), re \in 0..(MaxDetectFrames - 1), m \in DetectScores}

-----------------------------------------------------------------------------
(* The request pipeline of main.analyze_pronunciation and the public       *)
(* functions it calls                                                      *)

Init ==
  /\ FetchIdle
  /\ pc = "extracted"
  /\ user \in ExtractedFeatureSets
  /\ ref \in RefFeatureSets \cup {user}
  /\ alignment = None
  /\ n_segments = None
  /\ word_timings = None
  /\ report = None
  /\ words = None
  /\ timing_in = None
  /\ timing_out = None
  /\ mfcc_in = None
  /\ mfcc_out = None
  /\ detect_in = None
  /\ detect_out = None
  /\ stretch_in = None
  /\ stretch_out = None

\* main.py step 5: alignment = align_audio_features(user_features, ref_features)
AlignAudioFeatures ==
  /\ pc = "extracted"
  /\ alignment' = align_audio_features(user, ref)
  /\ pc' = "aligned"
  /\ UNCHANGED <<user, ref, n_segments, word_timings, report, words,
                 timing_in, timing_out, mfcc_in, mfcc_out,
                 detect_in, detect_out, stretch_in, stretch_out>>
  /\ UNCHANGED fetch_vars

\* a call compare_recitations(user_features, ref_features, alignment, n)
CompareRecitations ==
  /\ pc = "aligned"
  /\ \E n \in 0..MaxSegments, zero_cos \in ZeroCosOutcomes :
       /\ n_segments' = n
       /\ report' = compare_recitations(user, ref, alignment, n, zero_cos)
  /\ pc' = "compared"
  /\ UNCHANGED <<user, ref, alignment, word_timings, words,
                 timing_in, timing_out, mfcc_in, mfcc_out,
                 detect_in, detect_out, stretch_in, stretch_out>>
  /\ UNCHANGED fetch_vars

\* a call compare_word_by_word(user_features, ref_features, alignment, word_timings)
CompareWordByWord ==
  /\ pc = "aligned"
  /\ \E wt \in WordLists(BoundaryTimes, MaxWordListLen), zero_cos \in ZeroCosOutcomes :
       /\ word_timings' = SomeList(wt)
       /\ words' = compare_word_by_word(user, ref, alignment, wt, zero_cos)
  /\ pc' = "worded"
  /\ UNCHANGED <<user, ref, alignment, n_segments, report,
                 timing_in, timing_out, mfcc_in, mfcc_out,
                 detect_in, detect_out, stretch_in, stretch_out>>
  /\ UNCHANGED fetch_vars

\* main.py steps 6 and 7: the segment report with the default n_segments,
\* then the word report when word_timings is truthy
AnalyzePronunciation ==
  /\ pc = "aligned"
  /\ \E zero_cos \in ZeroCosOutcomes :
       \E r \in {compare_recitations(user, ref, alignment, DefaultNSegments, zero_cos)} :
         \E wt \in WordTimingInputs :
           /\ word_timings' = wt
           /\ n_segments' = DefaultNSegments
           /\ report' = r
           /\ words' = IF Truthy(wt)
                       THEN compare_word_by_word(user, ref, alignment, wt.list, zero_cos)
                       ELSE <<>>
  /\ pc' = "responded"
  /\ UNCHANGED <<user, ref, alignment, timing_in, timing_out, mfcc_in, mfcc_out,
                 detect_in, detect_out, stretch_in, stretch_out>>
  /\ UNCHANGED fetch_vars

Next == AlignAudioFeatures \/ CompareRecitations \/ AnalyzePronunciation

Spec == Init /\ [][Next]_vars

-----------------------------------------------------------------------------------------------------------------------------------------------------
(* compare_recitations and compare_word_by_word as functions of their      *)
(* arguments: the alignment is any AlignmentResult whose path is monotone  *)
(* from (0, 0) and stays inside both recordings.  The reference is long    *)
(* enough for its n_frames field to be MaxPathLen.                         *)

InitCalls ==
  /\ FetchIdle
  /\ pc = "aligned"
  /\ user = extract_features(Alternating(FrameA, FrameZero, MaxPathLen))
  /\ ref = extract_features(Alternating(FrameB, FrameA,
                              MaxPathLen + FloorDiv(DefaultNFft, DefaultHopLength)))
  /\ \E p \in MonotonePaths, d \in Distances : alignment = AlignmentOfPath(p, user, ref, d)
  /\ n_segments = None
  /\ word_timings = None
  /\ report = None
  /\ words = None
  /\ timing_in = None
  /\ timing_out = None
  /\ mfcc_in = None
  /\ mfcc_out = None
  /\ detect_in = None
  /\ detect_out = None
  /\ stretch_in = None
  /\ stretch_out = None

\* a call compute_time_stretch(path, user_features, ref_features, segment_frames)
ComputeTimeStretch ==
  /\ pc = "aligned"
  /\ \E segment_frames \in (1..MaxSegmentFrames) \cup {DefaultSegmentFrames} :
       /\ stretch_in' = segment_frames
       /\ stretch_out' = compute_time_stretch(alignment.path, user, ref, segment_frames)
  /\ pc' = "stretched"
  /\ UNCHANGED <<user, ref, alignment, n_segments, word_timings, report, words,
                 timing_in, timing_out, mfcc_in, mfcc_out, detect_in, detect_out>>
  /\ UNCHANGED fetch_vars

NextCalls == CompareRecitations \/ CompareWordByWord \/ ComputeTimeStretch

SpecCalls == InitCalls /\ [][NextCalls]_vars

-----
(* The two segment scorers as functions of their arguments *)

InitScore ==
  /\ FetchIdle
  /\ pc = "idle"
  /\ user = extract_features(Alternating(FrameA, FrameB, MaxFrames))
  /\ ref = extract_features(Alternating(FrameB, FrameA, MaxFrames))
  /\ alignment = None
  /\ n_segments = None
  /\ word_timings = None
  /\ report = None
  /\ words = None
  /\ timing_in = None
  /\ timing_out = None
  /\ mfcc_in = None
  /\ mfcc_out = None
  /\ detect_in = None
  /\ detect_out = None
  /\ stretch_in = None
  /\ stretch_out = None

TimingOf(c) == compare_timing_segment(c[1], c[2], user, c[3], c[4], ref)

\* two calls of compare_timing_segment
ScoreTiming ==
  /\ pc = "idle"
  /\ \E c1 \in TimingCalls, c2 \in TimingCalls :
       /\ timing_in' = <<c1, c2>>
       /\ timing_out' = <<TimingOf(c1), TimingOf(c2)>>
  /\ pc' = "timed"
  /\ UNCHANGED <<user, ref, alignment, n_segments, word_timings, report, words, mfcc_in, mfcc_out,
                 detect_in, detect_out, stretch_in, stretch_out>>
  /\ UNCHANGED fetch_vars

\* a call of compare_mfcc_segment
ScoreMfcc ==
  /\ pc = "idle"
  /\ \E w1 \in MfccWindows, w2 \in MfccWindows, zero_cos \in ZeroCosOutcomes :
       /\ mfcc_in' = <<w1, w2>>
       /\ mfcc_out' = compare_mfcc_segment(w1, w2, zero_cos)
  /\ pc' = "scored"
  /\ UNCHANGED <<user, ref, alignment, n_segments, word_timings, report, words, timing_in, timing_out,
                 detect_in, detect_out, stretch_in, stretch_out>>
  /\ UNCHANGED fetch_vars

NextScore == ScoreTiming \/ ScoreMfcc

SpecScore == InitScore /\ [][NextScore]_vars

-----------------------------------------------------------------------------
(* The two issue detectors as functions of their arguments *)

InitDetect ==
  /\ FetchIdle
  /\ pc = "idle"
  /\ user \in DetectUserSets
  /\ ref \in DetectRefSets
  /\ alignment = None
  /\ n_segments = None
  /\ word_timings = None
  /\ report = None
  /\ words = None
  /\ timing_in = None
  /\ timing_out = None
  /\ mfcc_in = None
  /\ mfcc_out = None
  /\ detect_in = None
  /\ detect_out = None
  /\ stretch_in = None
  /\ stretch_out = None

SegIssuesOf(c) ==
  detect_issues(user, ref, c.user_start, c.user_end, c.ref_start, c.ref_end,
                c.makhraj_score, c.timing_score)

WordIssuesOf(c) ==
  detect_word_issues(user, ref, c.user_start, c.user_end, c.ref_start, c.ref_end,
                     c.makhraj_score, c.timing_score, WordText)

\* a call of detect_issues
DetectIssues ==
  /\ pc = "idle"
  /\ \E c \in DetectCalls :
       /\ detect_in' = c
       /\ detect_out' = SegIssuesOf(c)
  /\ pc' = "detected"
  /\ UNCHANGED <<user, ref, alignment, n_segments, word_timings, report, words,
                 timing_in, timing_out, mfcc_in, mfcc_out, stretch_in, stretch_out>>
  /\ UNCHANGED fetch_vars

\* a call of detect_word_issues
DetectWordIssues ==
  /\ pc = "idle"
  /\ \E c \in DetectCalls :
       /\ detect_in' = c
       /\ detect_out' = WordIssuesOf(c)
  /\ pc' = "word_detected"
  /\ UNCHANGED <<user, ref, alignment, n_segments, word_timings, report, words,
                 timing_in, timing_out, mfcc_in, mfcc_out, stretch_in, stretch_out>>
  /\ UNCHANGED fetch_vars

NextDetect == DetectIssues \/ DetectWordIssues

SpecDetect == InitDetect /\ [][NextDetect]_vars

-----------------------------------------------------------------------------
(* Properties *)

\* compare_recitations has been called with n_segments >= 1
Compared == pc \in {"compared", "responded"} /\ n_segments >= 1

\* C1: for Nu >= 1 user frames and Nr >= 1 reference frames the path that
\* align_audio_features returns is non-empty, starts at (0, 0), ends at
\* (Nu - 1, Nr - 1), and from each entry to the next neither the user index
\* nor the reference index decreases.
PathShape ==
  (pc \in {"aligned", "compared", "responded"}) =>
    LET path == alignment.path
    IN  /\ Len(path) >= 1
        /\ path[1] = <<0, 0>>
        /\ path[Len(path)] = <<Len(user.frames) - 1, Len(ref.frames) - 1>>
        /\ \A k \in 1..(Len(path) - 1) :
             path[k + 1][1] >= path[k][1] /\ path[k + 1][2] >= path[k][2]

\* an alignment of recordings of different lengths whose path repeats a
\* reference frame
PathShapeWitness ==
  /\ pc = "aligned"
  /\ Len(user.frames) > Len(ref.frames)
  /\ Len(ref.frames) > 1
  /\ \E k \in 1..(Len(alignment.path) - 1) :
       alignment.path[k + 1][2] = alignment.path[k][2]

\* a score lies in [0, 100] (nan does not)
InRange(x) == RLe(RInt(0), x) /\ RLe(x, RInt(100))

\* C2: for all inputs, empty windows and every frame span with
\* user_end >= user_start included, compare_mfcc_segment and
\* compare_timing_segment return a value in [0, 100].
ScoresInRange ==
  /\ (pc = "timed") =>
       \A k \in 1..2 :
         timing_in[k][2] >= timing_in[k][1] => InRange(timing_out[k])
  /\ (pc = "scored") => InRange(mfcc_out)

\* two non-empty windows whose score the lower clamp sets to 0
ScoresInRangeWitness ==
  /\ pc = "scored"
  /\ mfcc_in[1] # <<>>
  /\ mfcc_in[2] # <<>>
  /\ mfcc_out = RInt(0)

\* a call (user_start, user_end, ref_start, ref_end) whose user span is not
\* negative and whose reference span is positive: its duration ratio
\* user/ref is defined and not negative
Measurable(c) == c[2] >= c[1] /\ c[4] > c[3]

CallRatio(c) == DurationRatio(c[1], c[2], user, c[3], c[4], ref)

Deviation(c) == RAbs(RSub(CallRatio(c), RInt(1)))

\* the tolerance band of a call's ratio
ToleranceBand(c) ==
  IF RLe(Rat(4, 5), CallRatio(c)) /\ RLe(CallRatio(c), Rat(6, 5)) THEN "good"
  ELSE IF RLe(Rat(1, 2), CallRatio(c)) /\ RLe(CallRatio(c), Rat(3, 2)) THEN "acceptable"
  ELSE "outside"

\* compare_timing_segment returns 100 exactly when the ratio is 1
PerfectIffEqual ==
  \A k \in 1..2 :
    Measurable(timing_in[k]) =>
      (timing_out[k] = RInt(100) <=> CallRatio(timing_in[k]) = RInt(1))

\* C3 as stated: compare_timing_segment returns 100 if and only if the
\* duration ratio is 1.0, and within each of the three tolerance bands the
\* score is strictly decreasing as |ratio - 1| grows.
TimingStrictlyDecreasing ==
  (pc = "timed") =>
    /\ PerfectIffEqual
    /\ ( /\ Measurable(timing_in[1]) /\ Measurable(timing_in[2])
         /\ ToleranceBand(timing_in[1]) = ToleranceBand(timing_in[2])
         /\ RLt(Deviation(timing_in[1]), Deviation(timing_in[2])) )
       => RLt(timing_out[2], timing_out[1])

\* C3, amended: compare_timing_segment returns 100 if and only if the
\* duration ratio is 1.0; within each tolerance band the score is strictly
\* decreasing as |ratio - 1| grows while |ratio - 1| < 2, and it is 0 for
\* every ratio with |ratio - 1| >= 2.
TimingDecreasingToFloor ==
  (pc = "timed") =>
    /\ PerfectIffEqual
    /\ ( /\ Measurable(timing_in[1]) /\ Measurable(timing_in[2])
         /\ ToleranceBand(timing_in[1]) = ToleranceBand(timing_in[2])
         /\ RLt(Deviation(timing_in[1]), Deviation(timing_in[2]))
         /\ RLt(Deviation(timing_in[1]), RInt(2)) )
       => RLt(timing_out[2], timing_out[1])
    /\ \A k \in 1..2 :
         (Measurable(timing_in[k]) /\ RLe(RInt(2), Deviation(timing_in[k])))
           => timing_out[k] = RInt(0)

\* two calls outside [0.5, 1.5], the second further from 1, both scored 0
TimingFloorWitness ==
  /\ pc = "timed"
  /\ Measurable(timing_in[1]) /\ Measurable(timing_in[2])
  /\ ToleranceBand(timing_in[1]) = "outside"
  /\ ToleranceBand(timing_in[2]) = "outside"
  /\ RLt(Deviation(timing_in[1]), Deviation(timing_in[2]))
  /\ timing_out[1] = RInt(0)
  /\ timing_out[2] = RInt(0)

\* a feedback with the three scores 100 and no issue
PerfectFeedback(f) ==
  /\ f.makhraj_score = RInt(100)
  /\ f.timing_score = RInt(100)
  /\ f.overall_score = RInt(100)
  /\ f.issues = <<>>

\* C4: when user and reference are the same feature set, every
\* SegmentFeedback of compare_recitations and every WordFeedback of
\* compare_word_by_word (for words without the 0/0 sentinel) has the three
\* scores 100 and no issue, for every frame count >= 1 and every segment
\* count >= 1.
IdenticalScoresPerfect ==
  (Compared /\ user = ref) =>
    /\ report.raised = None
    /\ \A i \in 1..Len(report.value.segments) : PerfectFeedback(report.value.segments[i])
    /\ (pc = "responded") =>
         \A i \in 1..Len(words) :
           ~IsSentinel(word_timings.list[i]) => PerfectFeedback(words[i])

\* Python's resolution of a list index: a negative index counts from the end
ResolvedIndex(path_len, idx) == IF idx >= 0 THEN idx ELSE path_len + idx

\* the path indices (0-based) of chunk i of n
ChunkIndices(path_len, n, i) ==
  LET b == ChunkBounds(path_len, FloorDiv(path_len, n), i)
  IN  ResolvedIndex(path_len, b[1])..ResolvedIndex(path_len, b[2])

\* C5: compare_recitations with n >= 1 partitions the alignment path into
\* exactly n contiguous chunks of equal length (the last truncated to the
\* path length): the chunks are pairwise disjoint, every path index lies in
\* exactly one chunk, and each segment's span is taken from the first and
\* the last path entry of its chunk.
ChunksPartitionPath ==
  Compared =>
    LET path == alignment.path
        n == n_segments
        chunk(i) == ChunkIndices(Len(path), n, i)
        first(i) == path[ResolvedIndex(Len(path), ChunkBounds(Len(path), FloorDiv(Len(path), n), i)[1]) + 1]
        last(i) == path[ResolvedIndex(Len(path), ChunkBounds(Len(path), FloorDiv(Len(path), n), i)[2]) + 1]
    IN  /\ report.raised = None
        /\ Len(report.value.segments) = n
        /\ \A i \in 0..(n - 1) : chunk(i) # {}
        /\ \A i \in 0..(n - 2) : Cardinality(chunk(i)) = Cardinality(chunk(0))
        /\ Cardinality(chunk(n - 1)) <= Cardinality(chunk(0))
        /\ \A i, j \in 0..(n - 1) : i # j => chunk(i) \cap chunk(j) = {}
        /\ \A k \in 0..(Len(path) - 1) : \E i \in 0..(n - 1) : k \in chunk(i)
        /\ \A i \in 0..(n - 1) :
             /\ report.value.segments[i + 1].start_time = FrameSeconds(user, first(i)[1])
             /\ report.value.segments[i + 1].end_time = FrameSeconds(user, last(i)[1])

\* the per-segment values of one score of a report
ScoresOf(segments, field) == ListOf([i \in 1..Len(segments) |-> segments[i][field]])

\* C6: with segment count 0 compare_recitations returns a report whose
\* aggregate articulation and timing scores are both 0; otherwise each
\* aggregate is the arithmetic mean of the per-segment scores.
AggregatesAreMeans ==
  (pc = "compared") =>
    /\ report.raised = None
    /\ IF n_segments = 0
       THEN /\ report.value.makhraj_score = RInt(0)
            /\ report.value.timing_score = RInt(0)
       ELSE /\ report.value.makhraj_score = Mean(ScoresOf(report.value.segments, "makhraj_score"))
            /\ report.value.timing_score = Mean(ScoresOf(report.value.segments, "timing_score"))

\* C7: for well-formed feature sets, every valid alignment, every segment
\* count >= 1 (one larger than the path length included) and every
\* word-boundary list, compare_recitations (with detect_issues) and
\* compare_word_by_word (with detect_word_issues) return a result and never
\* raise.
NeverRaises ==
  /\ (pc = "compared" /\ n_segments >= 1) =>
       /\ report.raised = None
       /\ Len(report.value.segments) = n_segments
  /\ (pc = "worded") => Len(words) = Len(word_timings.list)

\* a report for more segments than the path has entries
NeverRaisesWitness ==
  /\ pc = "compared"
  /\ n_segments > Len(alignment.path)
  /\ Len(alignment.path) > 1
  /\ report.raised = None

\* the clamped reference range of word i matches no entry of the path
Unmatched(i) ==
  LET word == word_timings.list[i]
      range == WordRefRange(ref, word)
  IN  /\ ~(word.start_ms = 0 /\ word.end_ms = 0)
      /\ \A k \in 1..Len(alignment.path) :
           ~(range[1] <= alignment.path[k][2] /\ alignment.path[k][2] < range[2])

\* C8: for a word boundary whose clamped reference-frame range matches no
\* entry of the alignment path, compare_word_by_word emits a WordFeedback
\* with articulation, timing and overall score 30 and exactly one diagnostic.
UnmatchedWordScores30 ==
  (pc = "worded") =>
    \A i \in 1..Len(word_timings.list) :
      Unmatched(i) =>
        /\ i <= Len(words)
        /\ words[i].makhraj_score = RInt(30)
        /\ words[i].timing_score = RInt(30)
        /\ words[i].overall_score = RInt(30)
        /\ Len(words[i].issues) = 1

\* a call with a word whose range no path entry matches
UnmatchedWordWitness ==
  /\ pc = "worded"
  /\ \E i \in 1..Len(word_timings.list) : Unmatched(i)

\* C9: for every word boundary with start_ms = 0 and end_ms = 0,
\* compare_word_by_word emits a WordFeedback with the three scores 50 and no
\* issue, whatever the alignment path and the features are.
SentinelWordScores50 ==
  (pc = "worded") =>
    \A i \in 1..Len(word_timings.list) :
      (word_timings.list[i].start_ms = 0 /\ word_timings.list[i].end_ms = 0) =>
        /\ i <= Len(words)
        /\ words[i].makhraj_score = RInt(50)
        /\ words[i].timing_score = RInt(50)
        /\ words[i].overall_score = RInt(50)
        /\ words[i].issues = <<>>

\* a call with a sentinel word after a word that is scored from the features
SentinelWordWitness ==
  /\ pc = "worded"
  /\ Len(word_timings.list) = 2
  /\ word_timings.list[2].start_ms = 0 /\ word_timings.list[2].end_ms = 0
  /\ word_timings.list[1].end_ms > 0
  /\ ~Unmatched(1)
  /\ Len(alignment.path) > 1

\* C10: compare_word_by_word returns exactly one WordFeedback per input word
\* boundary, in input order, each carrying the word_index and text of its
\* boundary; an empty or absent word-boundary list yields an empty word
\* report while the segment report is still produced.
OneFeedbackPerWord ==
  (pc = "responded") =>
    /\ report.raised = None
    /\ Len(report.value.segments) = DefaultNSegments
    /\ Len(words) = Len(word_timings.list)
    /\ \A i \in 1..Len(words) :
         /\ words[i].word_index = word_timings.list[i].word_index
         /\ words[i].text = word_timings.list[i].text

\* a request without a word-boundary list
OneFeedbackPerWordWitness ==
  /\ pc = "responded"
  /\ ~word_timings.present
  /\ words = <<>>
  /\ report.raised = None
  /\ Len(report.value.segments) = DefaultNSegments

\* the acoustic dimension a detect_issues message belongs to, in the order
\* timing (1), articulation-band energy (2), spectral brightness (3),
\* pitch level (4), pitch stability (5), pitch jump (6), loudness (7)
Dimension(msg) ==
  IF msg \in {"Reciting too fast - consider slowing down for proper madd",
              "Reciting too slow - elongation may be excessive"} THEN 1
  ELSE IF msg \in {"Throat position may need adjustment - try deeper articulation",
                   "Tongue position differs from reference - check makhraj",
                   "Fine articulation differs - focus on letter clarity",
                   "Significant makhraj difference detected - review articulation point",
                   "Letter characteristics need improvement"} THEN 2
  ELSE IF msg \in {"Sound is duller than reference - more clarity needed",
                   "Sound is sharper than reference - soften the articulation"} THEN 3
  ELSE IF msg \in {"Pitch is too high - recite in a lower, more natural tone",
                   "Pitch is too low - raise your tone slightly"} THEN 4
  ELSE IF msg = "Pitch variation detected - maintain steadier tone" THEN 5
  ELSE IF msg = "Sudden pitch change detected - keep tone consistent" THEN 6
  ELSE IF msg \in {"Consider more emphasis/projection",
                   "Reduce volume for this segment"} THEN 7
  ELSE 0

\* the same for the messages of detect_word_issues
WordDimension(msg) ==
  IF msg \in {"Too fast - extend this word", "Too slow - shorten this word"} THEN 1
  ELSE IF msg \in {"Articulation point too shallow", "Articulation point too deep",
                   "Letter clarity needs work"} THEN 2
  ELSE IF msg \in {"Pitch too high", "Pitch too low"} THEN 4
  ELSE IF msg = "Unstable pitch" THEN 6
  ELSE IF msg \in {"Too quiet", "Too loud"} THEN 7
  ELSE 0

Detected == pc \in {"detected", "word_detected"}

\* the dimensions reported by the detection call under test
Reported ==
  {IF pc = "detected" THEN Dimension(detect_out[i]) ELSE WordDimension(detect_out[i]) :
     i \in 1..Len(detect_out)}

\* C11: the list detect_issues returns has at most seven messages, at most
\* one per check, in the order timing, articulation-band energy, spectral
\* brightness, pitch level, pitch stability, pitch jump, loudness: the
\* dimensions of its messages are strictly increasing.
ChecksAppendOnceInOrder ==
  pc = "detected" =>
    /\ Len(detect_out) <= 7
    /\ \A i \in 1..Len(detect_out) : Dimension(detect_out[i]) \in 1..7
    /\ \A i \in 1..Len(detect_out), j \in 1..Len(detect_out) :
         i < j => Dimension(detect_out[i]) < Dimension(detect_out[j])

\* what does hold of detect_issues: the four blocks of detect_issues run in the order timing, articulation
\* (band energy and brightness), pitch, loudness
BlockOf(msg) ==
  IF Dimension(msg) = 1 THEN 1
  ELSE IF Dimension(msg) \in {2, 3} THEN 2
  ELSE IF Dimension(msg) \in {4, 5, 6} THEN 3
  ELSE 4

BlocksInOrder ==
  pc = "detected" =>
    \A i \in 1..Len(detect_out), j \in 1..Len(detect_out) :
      i < j => BlockOf(detect_out[i]) <= BlockOf(detect_out[j])

\* the low band alone is reported twice, the second time after brightness
LowBandReportedTwice ==
  /\ pc = "detected"
  /\ \E i \in 1..Len(detect_out), j \in 1..Len(detect_out), k \in 1..Len(detect_out) :
       /\ i < j /\ j < k
       /\ detect_out[i] = "Tongue position differs from reference - check makhraj"
       /\ Dimension(detect_out[j]) = 3
       /\ detect_out[k] = "Significant makhraj difference detected - review articulation point"

MoreThanSevenMessages == pc = "detected" /\ Len(detect_out) > 7

\* the reference side of the call under test: detect_issues reads
\* [ref_start : ref_end + 1], detect_word_issues reads [ref_start : ref_end]
RefSide(field) ==
  FieldSlice(ref, field, detect_in.ref_start,
             IF pc = "detected" THEN detect_in.ref_end + 1 ELSE detect_in.ref_end)

RefVoiced == Voiced(RefSide("pitch"))

ZeroMean(s) == s # <<>> /\ SeqSum(s) = 0

\* the checks whose reference-side quantity is guarded (duration, centroid,
\* mean pitch, energy) stay silent when it is zero
GuardedChecksNeutral ==
  Detected =>
    /\ detect_in.ref_end = detect_in.ref_start => 1 \notin Reported
    /\ ZeroMean(RefSide("centroid")) => 3 \notin Reported
    /\ ZeroMean(RefVoiced) => 4 \notin Reported
    /\ ZeroMean(RefSide("rms")) => 7 \notin Reported

\* C12: in detect_issues and detect_word_issues a check whose reference-side
\* quantity (duration, mean centroid, mean voiced pitch, voiced-pitch standard
\* deviation, maximum adjacent pitch jump, mean RMS energy) is zero appends no
\* diagnostic.
ZeroReferenceIsNeutral ==
  Detected =>
    /\ detect_in.ref_end = detect_in.ref_start => 1 \notin Reported
    /\ ZeroMean(RefSide("centroid")) => 3 \notin Reported
    /\ ZeroMean(RefVoiced) => 4 \notin Reported
    /\ (RefVoiced # <<>> /\ VarNumerator(RefVoiced) = 0) => 5 \notin Reported
    /\ (Len(RefVoiced) > 1 /\ MaxJump(RefVoiced) = 0) => 6 \notin Reported
    /\ ZeroMean(RefSide("rms")) => 7 \notin Reported

\* a steady reference and a varying user: the stability check reports
SteadyReferenceFlagged ==
  /\ pc = "detected"
  /\ RefVoiced # <<>> /\ VarNumerator(RefVoiced) = 0
  /\ 5 \in Reported

\* a reference without pitch jumps over more than three voiced frames and a
\* jumping user: the jump check reports, at either level
FlatReferenceJumpFlagged ==
  /\ Detected
  /\ Len(RefVoiced) > 3 /\ MaxJump(RefVoiced) = 0
  /\ 6 \in Reported

\* the dimensions detect_word_issues reports for the arguments of the call
\* under test
WordReported ==
  {WordDimension(WordIssuesOf(detect_in)[i]) : i \in 1..Len(WordIssuesOf(detect_in))}

\* C13: detect_word_issues applies every check of detect_issues with
\* thresholds at least as strict: whatever dimension detect_issues flags on
\* a span, detect_word_issues flags on the same span.
WordChecksAtLeastAsStrict ==
  pc = "detected" => \A d \in Reported : d \in WordReported

\* an energy ratio of 0.4 is below the segment threshold 0.5 and not below
\* the word threshold 0.4
QuietFlaggedBySegmentOnly ==
  /\ pc = "detected"
  /\ detect_in.user_end > detect_in.user_start
  /\ detect_in.ref_end > detect_in.ref_start
  /\ 7 \in Reported
  /\ 7 \notin WordReported

\* detect_word_issues has no brightness and no stability check
WordNeverFlagsBrightnessOrStability ==
  pc = "word_detected" => 3 \notin Reported /\ 5 \notin Reported

\* C14: compare_mfcc_segment returns exactly 50 whenever either window has
\* zero width, and compare_timing_segment returns exactly 50 whenever the
\* reference span has zero duration, whatever the user span.
NeutralOnEmpty ==
  /\ pc = "scored" =>
       ((mfcc_in[1] = <<>> \/ mfcc_in[2] = <<>>) => mfcc_out = RInt(50))
  /\ pc = "timed" =>
       \A k \in 1..2 : timing_in[k][4] = timing_in[k][3] => timing_out[k] = RInt(50)

\* a timing call with a zero reference span and a user span of several frames
NeutralOnEmptyWitness ==
  /\ pc = "timed"
  /\ timing_in[1][4] = timing_in[1][3]
  /\ timing_in[1][2] > timing_in[1][1] + 1
  /\ timing_out[1] = RInt(50)

\* the user and reference spans of a compare_timing_segment call, in frames
UserSpan(c) == c[2] - c[1]

RefSpan(c) == c[4] - c[3]

\* C15 as stated: for a span whose reference duration is twice the user
\* duration, compare_timing_segment returns max(0, 50 - 25 * 1.0) = 25 from
\* the outermost branch.
ReferenceTwiceUserScores25 ==
  pc = "timed" =>
    \A k \in 1..2 :
      (UserSpan(timing_in[k]) > 0 /\ RefSpan(timing_in[k]) = 2 * UserSpan(timing_in[k]))
        => timing_out[k] = RInt(25)

\* C15: the ratio is user / reference.  A user span twice the reference span
\* (ratio 2.0) is scored by the outermost branch, max(0, 50 - 25 * 1.0) = 25;
\* a reference span twice the user span (ratio 0.5) lies on the closed edge
\* of the acceptable band and scores 50.
RatioTwoScores25 ==
  pc = "timed" =>
    \A k \in 1..2 :
      /\ (RefSpan(timing_in[k]) > 0 /\ UserSpan(timing_in[k]) = 2 * RefSpan(timing_in[k]))
           => /\ ToleranceBand(timing_in[k]) = "outside"
              /\ timing_out[k] = RInt(25)
      /\ (UserSpan(timing_in[k]) > 0 /\ RefSpan(timing_in[k]) = 2 * UserSpan(timing_in[k]))
           => /\ ToleranceBand(timing_in[k]) = "acceptable"
              /\ timing_out[k] = RInt(50)

\* a call at ratio 2.0 and a call at ratio 0.5
RatioTwoWitness ==
  /\ pc = "timed"
  /\ RefSpan(timing_in[1]) > 0 /\ UserSpan(timing_in[1]) = 2 * RefSpan(timing_in[1])
  /\ timing_out[1] = RInt(25)
  /\ UserSpan(timing_in[2]) > 0 /\ RefSpan(timing_in[2]) = 2 * UserSpan(timing_in[2])
  /\ timing_out[2] = RInt(50)

\* compare_recitations has returned a report
ReportReturned == Compared /\ report.raised = None

\* C16: in every report compare_recitations returns, each segment's overall
\* score is 0.6 * articulation + 0.4 * timing, the report's overall score is
\* 0.5 * articulation + 0.3 * timing + 0.2 * fluency, and the four aggregate
\* scores lie in [0, 100].
ReportScoresWeighted ==
  ReportReturned =>
    LET r == report.value
    IN  /\ \A i \in 1..Len(r.segments) :
             r.segments[i].overall_score =
               RAdd(RMul(Rat(3, 5), r.segments[i].makhraj_score),
                    RMul(Rat(2, 5), r.segments[i].timing_score))
        /\ r.overall_score =
             RAdd(RAdd(RMul(Rat(1, 2), r.makhraj_score), RMul(Rat(3, 10), r.timing_score)),
                  RMul(Rat(1, 5), r.fluency_score))
        /\ InRange(r.overall_score)
        /\ InRange(r.makhraj_score)
        /\ InRange(r.timing_score)
        /\ InRange(r.fluency_score)

\* a report of several segments whose three component scores all differ
ReportScoresWeightedWitness ==
  /\ ReportReturned
  /\ Len(report.value.segments) > 1
  /\ report.value.makhraj_score # report.value.timing_score
  /\ report.value.fluency_score # report.value.makhraj_score
  /\ report.value.fluency_score # report.value.timing_score
  /\ RLt(RInt(0), report.value.fluency_score)
  /\ RLt(report.value.fluency_score, RInt(100))
  /\ \E i \in 1..Len(report.value.segments) :
       report.value.segments[i].makhraj_score # report.value.segments[i].timing_score

\* clamp01(x) = min(1, max(0, x))
Clamp01(x) == RMin(RInt(1), RMax(RInt(0), x))

\* C17: the fluency score is clamp01(1 - normalized_distance / 50) * 100; it
\* is 100 at distance 0, 0 at every distance >= 50, and non-increasing in the
\* distance: an alignment at a smaller distance scores at least as much, one
\* at a larger distance at most as much.
FluencyNonIncreasing ==
  ReportReturned =>
    LET d == alignment.normalized_distance
        f == report.value.fluency_score
    IN  /\ f = RMul(Clamp01(RSub(RInt(1), RDiv(d, RInt(50)))), RInt(100))
        /\ d = RInt(0) => f = RInt(100)
        /\ RLe(RInt(50), d) => f = RInt(0)
        /\ \A e \in Distances :
             /\ RLe(e, d) => RLe(f, FluencyScore(e))
             /\ RLe(d, e) => RLe(FluencyScore(e), f)

\* a report for an alignment whose distance is beyond 50
FluencyFloorWitness ==
  /\ ReportReturned
  /\ RLt(RInt(50), alignment.normalized_distance)
  /\ report.value.fluency_score = RInt(0)

\* the diagonal (0, 0), (1, 1), ..., (n - 1, n - 1)
Diagonal(n) == [k \in 1..n |-> <<k - 1, k - 1>>]

\* C18: when user and reference are the same feature set of N frames,
\* align_audio_features returns the diagonal path and distance 0, also when
\* several frames have identical coefficient vectors.
IdenticalAlignsOnDiagonal ==
  (pc \in {"aligned", "compared", "responded"} /\ user = ref) =>
    /\ alignment.path = Diagonal(Len(user.frames))
    /\ alignment.distance = RInt(0)
    /\ alignment.normalized_distance = RInt(0)

\* the same recording on both sides, all of whose frames have the same
\* coefficient vector: every monotone path has cost 0
IdenticalAlignsOnDiagonalWitness ==
  /\ pc = "aligned"
  /\ user = ref
  /\ Len(user.frames) = MaxFrames
  /\ \A i \in 1..Len(user.frames) : user.frames[i].mfcc = user.frames[1].mfcc
  /\ Len(alignment.path) = MaxFrames

\* C19: user_to_ref[u] is the reference index of the last path entry whose
\* user index is u, and ref_to_user[r] is the user index of the first path
\* entry whose reference index is r.
MapsKeepLastAndFirst ==
  (pc \in {"aligned", "compared", "responded"}) =>
    LET path == alignment.path
        n == Len(path)
    IN  /\ DOMAIN alignment.user_to_ref = {path[k][1] : k \in 1..n}
        /\ DOMAIN alignment.ref_to_user = {path[k][2] : k \in 1..n}
        /\ \A k \in 1..n :
             (\A l \in (k + 1)..n : path[l][1] # path[k][1])
               => alignment.user_to_ref[path[k][1]] = path[k][2]
        /\ \A k \in 1..n :
             (\A l \in 1..(k - 1) : path[l][2] # path[k][2])
               => alignment.ref_to_user[path[k][2]] = path[k][1]

\* a path that pairs one user frame with two reference frames and one
\* reference frame with two user frames
MapsKeepLastAndFirstWitness ==
  /\ pc = "aligned"
  /\ \E k \in 1..(Len(alignment.path) - 1) :
       /\ alignment.path[k + 1][1] = alignment.path[k][1]
       /\ alignment.user_to_ref[alignment.path[k][1]] # alignment.path[k][2]
  /\ \E k \in 1..(Len(alignment.path) - 1) :
       /\ alignment.path[k + 1][2] = alignment.path[k][2]
       /\ alignment.ref_to_user[alignment.path[k][2]] # alignment.path[k + 1][1]

\* the chunks of compute_time_stretch for a path of at least two entries:
\* their number, and the first and last path entry (1-based) of chunk i
StretchChunks == Max2(1, Len(alignment.path) \div stretch_in)

ChunkFirst(i) == alignment.path[(i - 1) * (Len(alignment.path) \div StretchChunks) + 1]

ChunkLast(i) ==
  alignment.path[Min2(i * (Len(alignment.path) \div StretchChunks),
                      Len(alignment.path) - 1) + 1]

\* C20: compute_time_stretch never divides by zero: a path with fewer than
\* two entries yields the single ratio 1.0, a chunk whose reference elapsed
\* time is 0 yields 1.0, every other chunk yields user_elapsed / ref_elapsed,
\* and the result has at least one ratio, all of them >= 0.
TimeStretchGuarded ==
  pc = "stretched" =>
    /\ Len(stretch_out) >= 1
    /\ \A i \in 1..Len(stretch_out) : RLe(RInt(0), stretch_out[i])
    /\ Len(alignment.path) < 2 => stretch_out = <<RInt(1)>>
    /\ Len(alignment.path) >= 2 =>
         /\ Len(stretch_out) = StretchChunks
         /\ \A i \in 1..StretchChunks :
              LET user_frames == ChunkLast(i)[1] - ChunkFirst(i)[1]
                  ref_frames == ChunkLast(i)[2] - ChunkFirst(i)[2]
              IN  stretch_out[i] = IF ref_frames = 0 THEN RInt(1)
                                   ELSE Rat(user_frames * user.hop_length * ref.sample_rate,
                                            ref_frames * ref.hop_length * user.sample_rate)

\* several chunks, one without reference progress and one with a ratio
\* other than 1
TimeStretchGuardedWitness ==
  /\ pc = "stretched"
  /\ Len(stretch_out) > 1
  /\ \E i \in 1..StretchChunks :
       ChunkLast(i)[2] = ChunkFirst(i)[2] /\ ChunkLast(i)[1] > ChunkFirst(i)[1]
  /\ \E i \in 1..Len(stretch_out) : stretch_out[i] \notin {RInt(0), RInt(1)}

\* the overall sentence for a score, by its band
OverallSentence(score) ==
  IF RLe(RInt(90), score) THEN "Excellent recitation! Very close to the reference."
  ELSE IF RLe(RInt(75), score) THEN "Good recitation with minor areas for improvement."
  ELSE IF RLe(RInt(60), score) THEN "Acceptable recitation. Focus on the highlighted areas."
  ELSE "Needs practice. Review the specific feedback below."

\* the sentence when a sub-score is below 70, nothing otherwise
Advice(score, sentence) == IF RLt(score, RInt(70)) THEN " " \o sentence ELSE ""

\* the segments of a report that carry at least one diagnostic
Flagged(r) == {i \in 1..Len(r.segments) : r.segments[i].issues # <<>>}

\* C21: the summary is one overall sentence chosen by the band of the
\* overall score, then one advisory clause for each of articulation, timing
\* and fluency whose score is below 70, in that order, then a segment-count
\* clause exactly when some segment has a non-empty issue list, and that
\* clause reports the number of such segments.
SummaryComposition ==
  ReportReturned =>
    LET r == report.value
    IN  r.summary =
          OverallSentence(r.overall_score)
          \o Advice(r.makhraj_score, "Pay attention to articulation points (makhraj).")
          \o Advice(r.timing_score, "Work on timing - check madd elongation rules.")
          \o Advice(r.fluency_score, "Practice for smoother, more fluent recitation.")
          \o (IF Flagged(r) = {} THEN ""
              ELSE " " \o DecimalString(Cardinality(Flagged(r)))
                       \o " segment(s) need attention.")

\* a report in which some segments carry diagnostics and some do not, with
\* an advisory clause for one sub-score and none for another
SummaryCompositionWitness ==
  /\ ReportReturned
  /\ Flagged(report.value) # {}
  /\ Cardinality(Flagged(report.value)) < Len(report.value.segments)
  /\ \E a \in {report.value.makhraj_score, report.value.timing_score, report.value.fluency_score} :
       RLt(a, RInt(70))
  /\ \E a \in {report.value.makhraj_score, report.value.timing_score, report.value.fluency_score} :
       RLe(RInt(70), a)

-----------------------------------------------------------------------------
(* compute_time_stretch over paths long enough for several chunks of the   *)
(* default segment_frames                                                  *)

MaxStretchPathLen == 62

\* the path of k entries of one shape: both indices advance together, only
\* the user index advances, only the reference index advances, or the two
\* advance in turn
ShapedPath(shape, k) ==
  [i \in 1..k |->
     CASE shape = "diagonal" -> <<i - 1, i - 1>>
       [] shape = "user_only" -> <<i - 1, 0>>
       [] shape = "ref_only" -> <<0, i - 1>>
       [] OTHER -> <<i \div 2, (i - 1) \div 2>>]

LongPaths ==
  {ShapedPath(shape, k) : shape \in {"diagonal", "user_only", "ref_only", "stairs"},
                          k \in 1..MaxStretchPathLen}

\* the (start_idx, end_idx) pairs the loop of compute_time_stretch visits
\* from chunk i on, for a path of path_len entries
RECURSIVE ChunkIndexPairsFrom(_, _, _, _)
ChunkIndexPairsFrom(path_len, n_chunks, segment_size, i) ==
  IF i >= n_chunks THEN <<>>
  ELSE
    LET start_idx == i * segment_size
        end_idx == Min2((i + 1) * segment_size, path_len - 1)
    IN  IF start_idx >= path_len \/ end_idx >= path_len THEN <<>>
        ELSE <<<<start_idx, end_idx>>>>
               \o ChunkIndexPairsFrom(path_len, n_chunks, segment_size, i + 1)

\* the chunks of compute_time_stretch(path, _, _, segment_frames), len(path) >= 2
TimeStretchChunks(path_len, segment_frames) ==
  LET n_chunks == Max2(1, FloorDiv(path_len, segment_frames))
      segment_size == FloorDiv(path_len, n_chunks)
  IN  ChunkIndexPairsFrom(path_len, n_chunks, segment_size, 0)

InitStretch ==
  /\ FetchIdle
  /\ pc = "aligned"
  /\ user = extract_features(Alternating(FrameA, FrameZero, MaxPathLen))
  /\ ref = extract_features(Alternating(FrameB, FrameA,
                              MaxPathLen + FloorDiv(DefaultNFft, DefaultHopLength)))
  /\ \E p \in LongPaths : alignment = AlignmentOfPath(p, user, ref, RInt(0))
  /\ n_segments = None
  /\ word_timings = None
  /\ report = None
  /\ words = None
  /\ timing_in = None
  /\ timing_out = None
  /\ mfcc_in = None
  /\ mfcc_out = None
  /\ detect_in = None
  /\ detect_out = None
  /\ stretch_in = None
  /\ stretch_out = None

NextStretch == ComputeTimeStretch

SpecStretch == InitStretch /\ [][NextStretch]_vars

Stretched == pc = "stretched" /\ Len(alignment.path) >= 2

\* the chunks of the call under test
CallChunks == TimeStretchChunks(Len(alignment.path), stretch_in)

\* one stretch factor is returned per chunk
OneFactorPerChunk ==
  Stretched => Len(stretch_out) = Len(CallChunks) /\ CallChunks # <<>>

\* the first chunk starts at path index 0 and each chunk starts where the
\* previous one ended
ChunksAreContiguous ==
  Stretched =>
    /\ CallChunks[1][1] = 0
    /\ \A i \in 1..(Len(CallChunks) - 1) : CallChunks[i + 1][1] = CallChunks[i][2]

\* C22: for every path of at least two entries the chunks of
\* compute_time_stretch cover the whole path: the first chunk starts at
\* index 0, each chunk starts where the previous one ended, and the last
\* chunk ends at the final path index len(path) - 1.
ChunksCoverPath ==
  Stretched =>
    /\ CallChunks[1][1] = 0
    /\ \A i \in 1..(Len(CallChunks) - 1) : CallChunks[i + 1][1] = CallChunks[i][2]
    /\ CallChunks[Len(CallChunks)][2] = Len(alignment.path) - 1

\* a call with the default segment_frames whose last chunk stops before the
\* final entry of the path
TailLeftOut ==
  /\ Stretched
  /\ stretch_in = DefaultSegmentFrames
  /\ CallChunks[Len(CallChunks)][2] < Len(alignment.path) - 1

\* with the default segment_frames every chunk but the last spans between
\* 20 and 39 path steps
ChunkSpans ==
  Stretched /\ stretch_in = DefaultSegmentFrames =>
    \A i \in 1..(Len(CallChunks) - 1) :
      /\ CallChunks[i][2] - CallChunks[i][1] >= DefaultSegmentFrames
      /\ CallChunks[i][2] - CallChunks[i][1] < 2 * DefaultSegmentFrames

-----------------------------------------------------------------------------
(* compare_word_by_word over every complete alignment path of recordings   *)
(* whose reference has a positive n_frames                                 *)

MaxWordUserFrames == 2

MaxWordRefFrames == 3

\* every path from (0, 0) to (last_user, last_ref) whose steps advance the
\* user index, the reference index or both by one
RECURSIVE CompletePaths(_, _)
CompletePaths(last_user, last_ref) ==
  IF last_user = 0 /\ last_ref = 0 THEN {<< <<0, 0>> >>}
  ELSE {Append(p, <<last_user, last_ref>>) :
          p \in (IF last_user > 0 /\ last_ref > 0
                 THEN CompletePaths(last_user - 1, last_ref - 1) ELSE {})
                \cup (IF last_user > 0 THEN CompletePaths(last_user - 1, last_ref) ELSE {})
                \cup (IF last_ref > 0 THEN CompletePaths(last_user, last_ref - 1) ELSE {})}

InitWords ==
  /\ FetchIdle
  /\ pc = "extracted"
  /\ \E nu \in 1..MaxWordUserFrames, k \in 1..MaxWordRefFrames :
       /\ user = extract_features(Alternating(FrameA, FrameZero, nu))
       /\ ref = extract_features(Alternating(FrameB, FrameA,
                                   k + FloorDiv(DefaultNFft, DefaultHopLength)))
  /\ alignment = None
  /\ n_segments = None
  /\ word_timings = None
  /\ report = None
  /\ words = None
  /\ timing_in = None
  /\ timing_out = None
  /\ mfcc_in = None
  /\ mfcc_out = None
  /\ detect_in = None
  /\ detect_out = None
  /\ stretch_in = None
  /\ stretch_out = None

\* lines 67-91 of align_audio_features, for any complete path the warping
\* search may return
AlignOverPath ==
  /\ pc = "extracted"
  /\ \E p \in CompletePaths(Len(user.frames) - 1, Len(ref.frames) - 1) :
       alignment' = AlignmentOfPath(p, user, ref, RInt(0))
  /\ pc' = "aligned"
  /\ UNCHANGED <<user, ref, n_segments, word_timings, report, words,
                 timing_in, timing_out, mfcc_in, mfcc_out,
                 detect_in, detect_out, stretch_in, stretch_out>>
  /\ UNCHANGED fetch_vars

NextWords == AlignOverPath \/ CompareWordByWord

SpecWords == InitWords /\ [][NextWords]_vars

\* the path runs from (0, 0) to the last frame of both recordings by steps
\* of one on the user index, the reference index or both
ValidPath ==
  LET path == alignment.path
  IN  /\ path[1] = <<0, 0>>
      /\ path[Len(path)] = <<Len(user.frames) - 1, Len(ref.frames) - 1>>
      /\ \A k \in 1..(Len(path) - 1) :
           <<path[k + 1][1] - path[k][1], path[k + 1][2] - path[k][2]>>
             \in {<<1, 1>>, <<0, 1>>, <<1, 0>>}

\* C23: over a valid alignment path, every word boundary that is not the
\* 0/0 sentinel has a clamped reference range with
\* 0 <= ref_start_frame < ref_end_frame <= max(1, ref.n_frames); at least one
\* path entry matches it and its feedback is not the 30/30/30 fallback, also
\* for a word past the end of the reference or with end_ms <= start_ms.
WordRangeAlwaysMatched ==
  (pc = "worded" /\ ValidPath) =>
    \A i \in 1..Len(word_timings.list) :
      LET word == word_timings.list[i]
          range == WordRefRange(ref, word)
      IN  ~IsSentinel(word) =>
            /\ 0 <= range[1]
            /\ range[1] < range[2]
            /\ range[2] <= Max2(1, ref.n_frames)
            /\ UserFramesForWord(alignment.path, range[1], range[2]) # {}
            /\ words[i] # SkippedFeedback(word)
            /\ words[i].issues # <<"Word may have been skipped or unclear">>

\* a call over a reference with n_frames >= 2 holding a word that starts past
\* the end of the reference and a word whose end_ms is not after its start_ms
WordRangeAlwaysMatchedWitness ==
  /\ pc = "worded"
  /\ ValidPath
  /\ ref.n_frames >= 2
  /\ \E i \in 1..Len(word_timings.list) :
       MsToFrame(ref, word_timings.list[i].start_ms) >= ref.n_frames
  /\ \E i \in 1..Len(word_timings.list) :
       /\ ~IsSentinel(word_timings.list[i])
       /\ word_timings.list[i].end_ms <= word_timings.list[i].start_ms

-----------------------------------------------------------------------------
(* time order of the segments of a report *)

\* each segment starts no later than it ends and ends no later than the
\* next one starts
TimeOrdered(segments) ==
  /\ \A i \in 1..Len(segments) : RLe(segments[i].start_time, segments[i].end_time)
  /\ \A i \in 1..(Len(segments) - 1) : RLe(segments[i].end_time, segments[i + 1].start_time)

\* C24: in every report of compare_recitations with n >= 1 each segment has
\* start_time <= end_time and consecutive segments are in time order without
\* overlap (the end_time of segment i is at most the start_time of segment
\* i + 1), also when the path has fewer entries than n.
SegmentsInTimeOrder ==
  (ReportReturned /\ n_segments >= 1) => TimeOrdered(report.value.segments)

\* the segments are in time order when the path has at least n entries
SegmentsInTimeOrderOnLongPaths ==
  (ReportReturned /\ n_segments >= 1 /\ Len(alignment.path) >= n_segments) =>
    TimeOrdered(report.value.segments)

\* a report over a path with fewer entries than n whose first segment ends
\* after the second one starts
SegmentsOverlap ==
  /\ ReportReturned
  /\ n_segments > Len(alignment.path)
  /\ RLt(report.value.segments[2].start_time, report.value.segments[1].end_time)

-----------------------------------------------------------------------------
(* the frame maps of an alignment over a complete path *)

\* C25: over a valid alignment path user_to_ref is defined on every user
\* index 0..Nu-1 and ref_to_user on every reference index 0..Nr-1, both maps
\* are non-decreasing in their key, and every pair (u, user_to_ref[u]) and
\* (ref_to_user[r], r) is an entry of the path.
MapsTotalMonotoneOnPath ==
  (pc \in {"aligned", "worded"} /\ ValidPath) =>
    LET path == alignment.path
        entries == {path[k] : k \in 1..Len(path)}
        users == 0..(Len(user.frames) - 1)
        refs == 0..(Len(ref.frames) - 1)
    IN  /\ DOMAIN alignment.user_to_ref = users
        /\ DOMAIN alignment.ref_to_user = refs
        /\ \A u, v \in users :
             u <= v => alignment.user_to_ref[u] <= alignment.user_to_ref[v]
        /\ \A r, q \in refs :
             r <= q => alignment.ref_to_user[r] <= alignment.ref_to_user[q]
        /\ \A u \in users : <<u, alignment.user_to_ref[u]>> \in entries
        /\ \A r \in refs : <<alignment.ref_to_user[r], r>> \in entries

\* an alignment over a valid path that pairs a user frame with several
\* reference frames and a reference frame with several user frames
MapsTotalMonotoneOnPathWitness ==
  /\ pc = "aligned"
  /\ ValidPath
  /\ Len(user.frames) >= 2
  /\ \E k \in 1..(Len(alignment.path) - 1) : alignment.path[k + 1][1] = alignment.path[k][1]
  /\ \E k \in 1..(Len(alignment.path) - 1) : alignment.path[k + 1][2] = alignment.path[k][2]

-----------------------------------------------------------------------------
(* reference_audio.py: concurrent calls on one event loop.  A coroutine    *)
(* runs without interruption between two awaits; every await (opening a    *)
(* file, reading it, writing it, the GET request) is a point where the     *)
(* other calls may run.  aiofiles performs the file operations in worker   *)
(* threads, so a write reaches the file in one or several pieces.          *)

MaxCallers == 3

MaxAudioBytes == 2

Callers == 1..MaxCallers

\* the audio served by everyayah.com for the key
AudioBytes == ListOf([i \in 1..MaxAudioBytes |-> i])

\* a cache file holding content
FileOf(content) == [exists |-> TRUE, content |-> content]

\* the content of a file after a handle at offset pos writes data
WriteAt(content, pos, data) ==
  ListOf([i \in 1..Max2(Len(content), pos + Len(data)) |->
            IF pos < i /\ i <= pos + Len(data) THEN data[i - pos]
            ELSE IF i <= Len(content) THEN content[i] ELSE 0])

\* none of the analysis calls is in progress
AnalysisIdle ==
  /\ pc = "fetching"
  /\ user = None
  /\ ref = None
  /\ alignment = None
  /\ n_segments = None
  /\ word_timings = None
  /\ report = None
  /\ words = None
  /\ timing_in = None
  /\ timing_out = None
  /\ mfcc_in = None
  /\ mfcc_out = None
  /\ detect_in = None
  /\ detect_out = None
  /\ stretch_in = None
  /\ stretch_out = None

NotReturned == [returned |-> FALSE, none |-> FALSE, bytes |-> <<>>]

ReturnedNone == [returned |-> TRUE, none |-> TRUE, bytes |-> <<>>]

ReturnedBytes(bytes) == [returned |-> TRUE, none |-> FALSE, bytes |-> bytes]

\* a call get_reference_audio(surah, ayah, qari) that has not started; valid
\* tells whether surah and ayah pass the checks of lines 70-73
NewAudioCall(valid) ==
  [pc |-> "start", valid |-> valid, audio_bytes |-> <<>>, offset |-> 0, result |-> NotReturned]

InitAudio ==
  /\ AnalysisIdle
  /\ audio_file \in {NoFile, FileOf(AudioBytes)}
  /\ \E valid \in BOOLEAN : audio_call = [c \in Callers |-> NewAudioCall(valid)]
  /\ timestamps_file = NoFile
  /\ timestamps_cache = None
  /\ timestamps_call = <<>>
  /\ fetches = 0

\* lines 70-77: the checks of the arguments, then cache_path.exists()
CheckAudioCache(c) ==
  /\ audio_call[c].pc = "start"
  /\ audio_call' = [audio_call EXCEPT ![c] =
       IF ~audio_call[c].valid THEN [@ EXCEPT !.pc = "done", !.result = ReturnedNone]
       ELSE IF audio_file.exists THEN [@ EXCEPT !.pc = "open_read"]
       ELSE [@ EXCEPT !.pc = "download"]]
  /\ UNCHANGED <<audio_file, timestamps_file, timestamps_cache, timestamps_call, fetches>>
  /\ UNCHANGED analysis_vars

\* line 78: await aiofiles.open(cache_path, "rb")
OpenAudioCache(c) ==
  /\ audio_call[c].pc = "open_read"
  /\ audio_call' = [audio_call EXCEPT ![c].pc = "read"]
  /\ UNCHANGED <<audio_file, timestamps_file, timestamps_cache, timestamps_call, fetches>>
  /\ UNCHANGED analysis_vars

\* line 79: return await f.read(), the bytes the file holds at that moment
ReadAudioCache(c) ==
  /\ audio_call[c].pc = "read"
  /\ audio_call' = [audio_call EXCEPT ![c].pc = "done",
                                      ![c].result = ReturnedBytes(audio_file.content)]
  /\ UNCHANGED <<audio_file, timestamps_file, timestamps_cache, timestamps_call, fetches>>
  /\ UNCHANGED analysis_vars

\* lines 85-89 and 97-102: the GET request, its status check, and the two
\* exceptions that make the call return None
DownloadAudio(c) ==
  /\ audio_call[c].pc = "download"
  /\ \E outcome \in {"ok", "HTTPStatusError", "RequestError"} :
       audio_call' = [audio_call EXCEPT ![c] =
         IF outcome = "ok" THEN [@ EXCEPT !.pc = "open_write", !.audio_bytes = AudioBytes]
         ELSE [@ EXCEPT !.pc = "done", !.result = ReturnedNone]]
  /\ UNCHANGED <<audio_file, timestamps_file, timestamps_cache, timestamps_call, fetches>>
  /\ UNCHANGED analysis_vars

\* line 92: await aiofiles.open(cache_path, "wb") creates or truncates the file
OpenAudioCacheForWrite(c) ==
  /\ audio_call[c].pc = "open_write"
  /\ audio_file' = FileOf(<<>>)
  /\ audio_call' = [audio_call EXCEPT ![c].pc = "write", ![c].offset = 0]
  /\ UNCHANGED <<timestamps_file, timestamps_cache, timestamps_call, fetches>>
  /\ UNCHANGED analysis_vars

\* line 93: await f.write(audio_bytes); the next k bytes reach the file
WriteAudioCache(c) ==
  /\ audio_call[c].pc = "write"
  /\ \E k \in 1..(Len(audio_call[c].audio_bytes) - audio_call[c].offset) :
       /\ audio_file' = FileOf(WriteAt(audio_file.content, audio_call[c].offset,
                                       SubSeq(audio_call[c].audio_bytes,
                                              audio_call[c].offset + 1,
                                              audio_call[c].offset + k)))
       /\ audio_call' = [audio_call EXCEPT
            ![c].offset = @ + k,
            ![c].pc = IF audio_call[c].offset + k = Len(audio_call[c].audio_bytes)
                      THEN "close" ELSE "write"]
  /\ UNCHANGED <<timestamps_file, timestamps_cache, timestamps_call, fetches>>
  /\ UNCHANGED analysis_vars

\* lines 92-95: the file is closed and the downloaded bytes are returned
ReturnAudio(c) ==
  /\ audio_call[c].pc = "close"
  /\ audio_call' = [audio_call EXCEPT ![c].pc = "done",
                                      ![c].result = ReturnedBytes(audio_call[c].audio_bytes)]
  /\ UNCHANGED <<audio_file, timestamps_file, timestamps_cache, timestamps_call, fetches>>
  /\ UNCHANGED analysis_vars

NextAudio ==
  \E c \in Callers :
    \/ CheckAudioCache(c)
    \/ OpenAudioCache(c)
    \/ ReadAudioCache(c)
    \/ DownloadAudio(c)
    \/ OpenAudioCacheForWrite(c)
    \/ WriteAudioCache(c)
    \/ ReturnAudio(c)

SpecAudio == InitAudio /\ [][NextAudio]_vars

\* C26: under any interleaving of concurrent get_reference_audio calls for
\* one key, every call that has returned returned None or the complete
\* audio, and no call is about to read the cache file while another call
\* has created it and not finished writing it.
CachedAudioAlwaysComplete ==
  /\ \A c \in DOMAIN audio_call :
       audio_call[c].pc = "done" =>
         audio_call[c].result.none \/ audio_call[c].result.bytes = AudioBytes
  /\ \A c, d \in DOMAIN audio_call :
       ~(audio_call[c].pc = "read" /\ audio_call[d].pc = "write")

\* a call has returned bytes that are not the complete audio
PartialAudioReturned ==
  \E c \in DOMAIN audio_call :
    /\ audio_call[c].pc = "done"
    /\ ~audio_call[c].result.none
    /\ audio_call[c].result.bytes # AudioBytes

\* a call that downloaded the audio itself returns it complete
DownloaderReturnsComplete ==
  \A c \in DOMAIN audio_call :
    (audio_call[c].pc = "done" /\ audio_call[c].audio_bytes # <<>>) =>
      audio_call[c].result = ReturnedBytes(AudioBytes)

-----------------------------------------------------------------------------
(* reference_audio.py: concurrent fetch_quranwbw_timestamps calls *)

\* the table served by static.quranwbw.com
Table == "table"

\* json.dumps of the table: the characters of its text
TableJson == <<123, 125>>

JsonDumps(table) == TableJson

\* json.loads: the table for its complete text, JSONDecodeError otherwise
JsonLoads(text) == IF text = TableJson THEN Returned(Table) ELSE Raised("JSONDecodeError")

NoResult == [returned |-> FALSE, raised |-> None, value |-> None]

\* a call fetch_quranwbw_timestamps() that has not started
NewTimestampsCall == [pc |-> "start", offset |-> 0, result |-> NoResult]

InitTimestamps ==
  /\ AnalysisIdle
  /\ audio_file = NoFile
  /\ audio_call = <<>>
  /\ timestamps_file \in {NoFile, FileOf(TableJson)}
  /\ timestamps_cache = None
  /\ timestamps_call = [c \in Callers |-> NewTimestampsCall]
  /\ fetches = 0

\* lines 185-190: the test of the global, then cache_path.exists()
CheckTimestampsCache(c) ==
  /\ timestamps_call[c].pc = "start"
  /\ timestamps_call' = [timestamps_call EXCEPT ![c] =
       IF timestamps_cache # None
       THEN [@ EXCEPT !.pc = "done",
                      !.result = [returned |-> TRUE, raised |-> None, value |-> timestamps_cache]]
       ELSE IF timestamps_file.exists THEN [@ EXCEPT !.pc = "open_read"]
       ELSE [@ EXCEPT !.pc = "request"]]
  /\ UNCHANGED <<audio_file, audio_call, timestamps_file, timestamps_cache, fetches>>
  /\ UNCHANGED analysis_vars

\* line 191: await aiofiles.open(cache_path, "r")
OpenTimestampsFile(c) ==
  /\ timestamps_call[c].pc = "open_read"
  /\ timestamps_call' = [timestamps_call EXCEPT ![c].pc = "read"]
  /\ UNCHANGED <<audio_file, audio_call, timestamps_file, timestamps_cache, fetches>>
  /\ UNCHANGED analysis_vars

\* lines 192-194: the text the file holds at that moment is parsed; the
\* exception of json.loads is not caught by the function
ReadTimestampsFile(c) ==
  /\ timestamps_call[c].pc = "read"
  /\ LET loaded == JsonLoads(timestamps_file.content)
     IN  IF loaded.raised # None
         THEN /\ timestamps_call' = [timestamps_call EXCEPT
                   ![c].pc = "done",
                   ![c].result = [returned |-> TRUE, raised |-> loaded.raised, value |-> None]]
              /\ UNCHANGED timestamps_cache
         ELSE /\ timestamps_cache' = loaded.value
              /\ timestamps_call' = [timestamps_call EXCEPT
                   ![c].pc = "done",
                   ![c].result = [returned |-> TRUE, raised |-> None, value |-> loaded.value]]
  /\ UNCHANGED <<audio_file, audio_call, timestamps_file, fetches>>
  /\ UNCHANGED analysis_vars

\* lines 198-199: the GET request for timestamps.json is issued
RequestTimestamps(c) ==
  /\ timestamps_call[c].pc = "request"
  /\ fetches' = fetches + 1
  /\ timestamps_call' = [timestamps_call EXCEPT ![c].pc = "response"]
  /\ UNCHANGED <<audio_file, audio_call, timestamps_file, timestamps_cache>>
  /\ UNCHANGED analysis_vars

\* lines 199-201 and 208-210: the response sets the global, or any exception
\* makes the call return None
ReceiveTimestamps(c) ==
  /\ timestamps_call[c].pc = "response"
  /\ \E outcome \in {"ok", "Exception"} :
       IF outcome = "ok"
       THEN /\ timestamps_cache' = Table
            /\ timestamps_call' = [timestamps_call EXCEPT ![c].pc = "open_write"]
       ELSE /\ UNCHANGED timestamps_cache
            /\ timestamps_call' = [timestamps_call EXCEPT
                 ![c].pc = "done",
                 ![c].result = [returned |-> TRUE, raised |-> None, value |-> None]]
  /\ UNCHANGED <<audio_file, audio_call, timestamps_file, fetches>>
  /\ UNCHANGED analysis_vars

\* line 204: await aiofiles.open(cache_path, "w") creates or truncates the file
OpenTimestampsFileForWrite(c) ==
  /\ timestamps_call[c].pc = "open_write"
  /\ timestamps_file' = FileOf(<<>>)
  /\ timestamps_call' = [timestamps_call EXCEPT ![c].pc = "write", ![c].offset = 0]
  /\ UNCHANGED <<audio_file, audio_call, timestamps_cache, fetches>>
  /\ UNCHANGED analysis_vars

\* line 205: await f.write(json.dumps(_timestamps_cache)); the next k
\* characters reach the file
WriteTimestampsFile(c) ==
  /\ timestamps_call[c].pc = "write"
  /\ LET text == JsonDumps(timestamps_cache)
     IN  \E k \in 1..(Len(text) - timestamps_call[c].offset) :
           /\ timestamps_file' = FileOf(WriteAt(timestamps_file.content, timestamps_call[c].offset,
                                                SubSeq(text, timestamps_call[c].offset + 1,
                                                       timestamps_call[c].offset + k)))
           /\ timestamps_call' = [timestamps_call EXCEPT
                ![c].offset = @ + k,
                ![c].pc = IF timestamps_call[c].offset + k = Len(text) THEN "close" ELSE "write"]
  /\ UNCHANGED <<audio_file, audio_call, timestamps_cache, fetches>>
  /\ UNCHANGED analysis_vars

\* lines 204-207: the file is closed and the global is returned
ReturnTimestamps(c) ==
  /\ timestamps_call[c].pc = "close"
  /\ timestamps_call' = [timestamps_call EXCEPT
       ![c].pc = "done",
       ![c].result = [returned |-> TRUE, raised |-> None, value |-> timestamps_cache]]
  /\ UNCHANGED <<audio_file, audio_call, timestamps_file, timestamps_cache, fetches>>
  /\ UNCHANGED analysis_vars

NextTimestamps ==
  \E c \in Callers :
    \/ CheckTimestampsCache(c)
    \/ OpenTimestampsFile(c)
    \/ ReadTimestampsFile(c)
    \/ RequestTimestamps(c)
    \/ ReceiveTimestamps(c)
    \/ OpenTimestampsFileForWrite(c)
    \/ WriteTimestampsFile(c)
    \/ ReturnTimestamps(c)

SpecTimestamps == InitTimestamps /\ [][NextTimestamps]_vars

\* a call that starts while _timestamps_cache is set returns it at once: no
\* request is issued and the file is neither read nor written
ServedFromMemory ==
  \A c \in DOMAIN timestamps_call :
    (timestamps_call[c].pc = "start" /\ timestamps_cache # None
       /\ timestamps_call'[c] # timestamps_call[c]) =>
      /\ timestamps_call'[c].pc = "done"
      /\ timestamps_call'[c].result = [returned |-> TRUE, raised |-> None, value |-> timestamps_cache]
      /\ fetches' = fetches
      /\ timestamps_file' = timestamps_file

\* C27: the timestamps table is loaded once per process: under any
\* interleaving of concurrent fetch_quranwbw_timestamps calls at most one
\* GET request for the timestamps file is ever issued, and once
\* _timestamps_cache is set every later call returns it without reading the
\* file or the network.
TimestampsLoadedOnce == [](fetches <= 1) /\ [][ServedFromMemory]_vars

\* every call that starts after the global is set is served from memory
LaterCallsServedFromMemory == [][ServedFromMemory]_vars

\* two requests for the timestamps file have been issued
FetchedTwice == fetches >= 2

\* no call parses the text of a file another call is still writing: the
\* global is set before the file is created, and a call that finds the
\* global set does not open the file
TimestampsFileNeverParsedPartial ==
  \A c \in DOMAIN timestamps_call :
    timestamps_call[c].pc = "done" => timestamps_call[c].result.raised = None

\* a call that started after the global was set has returned it
ServedFromMemoryWitness ==
  \E c, d \in DOMAIN timestamps_call :
    /\ timestamps_call[c].pc = "done" /\ timestamps_call[c].offset = 0
    /\ timestamps_call[c].result.value = Table
    /\ timestamps_call[d].pc = "done" /\ timestamps_call[d].offset > 0
    /\ fetches = 1

====
